---------------------------- MODULE Spec2Model ----------------------------
(***************************************************************************)
(* A model of the Insight-loop course-feedback backend: the relational     *)
(* store (forms, questions, responses, answers), the request handlers that *)
(* write it (responses.py, questions.py, forms.py) and the analytics       *)
(* engines and endpoints that read it (analytics_service.py,               *)
(* analytics.py).                                                          *)
(*                                                                         *)
(* Conventions.                                                            *)
(*  - A table is a set of row records; a row has an integer id.            *)
(*  - An Optional value is a set with at most one element: {} is None.     *)
(*  - A str is a sequence of characters, a character is a one-token        *)
(*    string; "SUP2" stands for U+00B2 (superscript two).                  *)
(*  - A float holding a value rounded to two decimals is the integer       *)
(*    number of hundredths (4.33 is 433, 50.0 is 5000).                    *)
(*  - A datetime is an integer day number; day 1 is a Monday.              *)
(*  - A query without ORDER BY returns its rows in an order the database   *)
(*    chooses: a db handle carries rowOrder, a ranking of ids, and .all()  *)
(*    returns the rows by increasing rank.                                 *)
(***************************************************************************)
EXTENDS Integers, Sequences, FiniteSets, TLC

VARIABLES
    forms,      \* table forms
    questions,  \* table questions
    responses,  \* table responses
    answers,    \* table answers
    nextId,     \* the serial of each table's primary key
    now,        \* datetime.utcnow()
    reqs,       \* the requests in flight: one handler activation each
    result,     \* what the last engine call returned
    commitLog   \* history: per response id, the form as it was at the commit

store == <<forms, questions, responses, answers, nextId>>
vars == <<forms, questions, responses, answers, nextId, now, reqs, result, commitLog>>

---------------------------------------------------------------------------
(* Bounds of the model *)

MaxResponses == 3

---------------------------------------------------------------------------
(* Generic helpers *)

Range(s) == {s[i] : i \in 1..Len(s)}

RECURSIVE SumSeq(_)
SumSeq(s) == IF s = <<>> THEN 0 ELSE Head(s) + SumSeq(Tail(s))

\* Number of elements of seq s equal to x.
CountOf(s, x) == Cardinality({i \in 1..Len(s) : s[i] = x})

\* The elements of a set of integers as an ascending sequence: sorted(...).
RECURSIVE SortedInts(_)
SortedInts(S) ==
    IF S = {} THEN <<>>
    ELSE LET m == CHOOSE x \in S : \A y \in S : x <= y
         IN <<m>> \o SortedInts(S \ {m})

\* The first occurrences of the elements of s, in order: the key order of a
\* dict (or Counter) filled by iterating s.
InsertionKeys(s) ==
    LET first == {i \in 1..Len(s) : \A j \in 1..(i - 1) : s[j] # s[i]}
    IN [n \in 1..Cardinality(first) |->
            s[CHOOSE i \in first : Cardinality({j \in first : j <= i}) = n]]

\* Session.query(...).all(): the rows of S in the order the database returns
\* them, which is by db.rowOrder here.
RECURSIVE RowsBy(_, _)
RowsBy(S, rk) ==
    IF S = {} THEN <<>>
    ELSE LET x == CHOOSE x \in S : \A y \in S : rk[x.id] <= rk[y.id]
         IN <<x>> \o RowsBy(S \ {x}, rk)

All(S, db) == RowsBy(S, db.rowOrder)

\* round(num / den, 2) in hundredths, den > 0: Python rounds a float to the
\* nearest hundredth, an exact tie to the even one.
Round2(num, den) ==
    LET q == (num * 100) \div den
        r == (num * 100) % den
    IN IF 2 * r < den THEN q
       ELSE IF 2 * r > den THEN q + 1
       ELSE IF q % 2 = 0 THEN q ELSE q + 1

---------------------------------------------------------------------------
(* str.isdigit() and int(str) *)

\* Characters of Unicode category Nd (decimal digits).
DecimalChars == {"0", "3", "5"}
\* Characters str.isdigit() accepts: Nd and the other digits (No with a digit
\* value), such as superscript two.
DigitChars == DecimalChars \cup {"SUP2"}
SignChars == {"-", "+"}

DecimalValue(c) == CASE c = "0" -> 0 [] c = "3" -> 3 [] c = "5" -> 5

\* str.isdigit(): non-empty and every character a digit.
IsDigit(s) == Len(s) > 0 /\ \A i \in 1..Len(s) : s[i] \in DigitChars

Unsigned(s) == IF Len(s) > 0 /\ s[1] \in SignChars THEN Tail(s) ELSE s

\* int(s) does not raise ValueError: an optional sign, then decimal digits.
IntParses(s) ==
    LET b == Unsigned(s)
    IN Len(b) > 0 /\ \A i \in 1..Len(b) : b[i] \in DecimalChars

RECURSIVE DecimalNumber(_)
DecimalNumber(b) ==
    IF b = <<>> THEN 0
    ELSE 10 * DecimalNumber(SubSeq(b, 1, Len(b) - 1)) + DecimalValue(b[Len(b)])

\* int(s), for s with IntParses(s).
IntValue(s) ==
    IF Len(s) > 0 /\ s[1] = "-" THEN 0 - DecimalNumber(Unsigned(s))
    ELSE DecimalNumber(Unsigned(s))

\* [int(a.answer_value) for a in rows if a.answer_value.isdigit()]: the
\* values, or the ValueError int() raises on the first digit string it
\* cannot parse.
DigitRows(rows) == SelectSeq(rows, LAMBDA a : IsDigit(a.answer_value))
RatingsRaise(rows) == \E i \in 1..Len(rows) :
    IsDigit(rows[i].answer_value) /\ ~IntParses(rows[i].answer_value)
Ratings(rows) ==
    LET digits == DigitRows(rows)
    IN [i \in 1..Len(digits) |-> IntValue(digits[i].answer_value)]

ValueError(msg) == [status |-> "ValueError", detail |-> msg]

---------------------------------------------------------------------------
(* analytics_service.py: the four engines.  db is a session handle: the    *)
(* tables as the call sees them and the order its queries return rows in.  *)

Db(rk) == [forms |-> forms, questions |-> questions, responses |-> responses,
           answers |-> answers, rowOrder |-> rk]

\* Counter(values) as the sequence of (key, count) in first-occurrence order.
CounterItems(values) ==
    LET keys == InsertionKeys(values)
    IN [i \in 1..Len(keys) |-> [key |-> keys[i], count |-> CountOf(values, keys[i])]]

\* Counter.most_common(): by decreasing count, equal counts in first-occurrence
\* order (a stable sort of the items).
RECURSIVE MostCommon(_)
MostCommon(items) ==
    IF items = <<>> THEN <<>>
    ELSE LET i == CHOOSE i \in 1..Len(items) :
                    /\ \A j \in 1..Len(items) : items[j].count <= items[i].count
                    /\ \A j \in 1..(i - 1) : items[j].count < items[i].count
         IN <<items[i]>> \o
            MostCommon(SubSeq(items, 1, i - 1) \o SubSeq(items, i + 1, Len(items)))

\* The rating branch of calculate_question_analytics.
RatingDistribution(answerRows, total_responses) ==
    LET ratings == Ratings(answerRows)
        sorted  == SortedInts(Range(ratings))
    IN [i \in 1..Len(sorted) |->
            [rating |-> sorted[i], count |-> CountOf(ratings, sorted[i]),
             percentage |-> Round2(CountOf(ratings, sorted[i]) * 100, total_responses)]]

RatingAverage(answerRows, total_responses) ==
    Round2(SumSeq(Ratings(answerRows)), total_responses)

\* The mcq histogram listed by option_counts.items() instead of
\* most_common(): the entries come in the order the strings were first met.
McqDistributionAsMet(answerRows, total_responses) ==
    LET values == [i \in 1..Len(answerRows) |-> answerRows[i].answer_value]
        items  == CounterItems(values)
    IN [i \in 1..Len(items) |->
            [option |-> items[i].key, count |-> items[i].count,
             percentage |-> Round2(items[i].count * 100, total_responses)]]

\* The mcq branch of calculate_question_analytics.
McqDistribution(answerRows, total_responses) ==
    LET values == [i \in 1..Len(answerRows) |-> answerRows[i].answer_value]
        items  == MostCommon(CounterItems(values))
    IN [i \in 1..Len(items) |->
            [option |-> items[i].key, count |-> items[i].count,
             percentage |-> Round2(items[i].count * 100, total_responses)]]

\* str.lower(): the upper-case letters go to their lower-case letters, every
\* other character stays.
LowerAlphabet == << "a", "b", "c", "d", "e", "f", "g", "h", "i", "j", "k", "l", "m",
                    "n", "o", "p", "q", "r", "s", "t", "u", "v", "w", "x", "y", "z" >>
UpperAlphabet == << "A", "B", "C", "D", "E", "F", "G", "H", "I", "J", "K", "L", "M",
                    "N", "O", "P", "Q", "R", "S", "T", "U", "V", "W", "X", "Y", "Z" >>
LowerChar(c) ==
    IF \E i \in DOMAIN UpperAlphabet : UpperAlphabet[i] = c
    THEN LowerAlphabet[CHOOSE i \in DOMAIN UpperAlphabet : UpperAlphabet[i] = c]
    ELSE c
Lower(s) == [i \in 1..Len(s) |-> LowerChar(s[i])]

\* The characters the class [a-z] of the pattern accepts.
LowerLetters == Range(LowerAlphabet)
\* The characters \w accepts (after lower()): letters, digits, underscore,
\* letters outside ASCII.  \b is the place between a \w and a non-\w
\* character or an end of the text.
WordChars == LowerLetters \cup DigitChars \cup {"_", "EACUTE"}

\* a.answer_value == "yes", without lower(): "Yes" is not a yes.
SaysYesExactly(a) == a.answer_value = << "y", "e", "s" >>

\* a.answer_value.lower() == "yes", compared with == and so without
\* stripping or any other normalisation.
SaysYes(a) == Lower(a.answer_value) = << "y", "e", "s" >>

\* The yes_no branch of calculate_question_analytics.
YesNoDistribution(answerRows, total_responses) ==
    LET yes_count == Len(SelectSeq(answerRows, SaysYes))
        no_count  == total_responses - yes_count
    IN [yes_count |-> yes_count, no_count |-> no_count,
        yes_percentage |-> Round2(yes_count * 100, total_responses),
        no_percentage |-> Round2(no_count * 100, total_responses)]

\* " ".join(a.answer_value.lower() for a in answers)
RECURSIVE AllText(_)
AllText(answerRows) ==
    IF answerRows = <<>> THEN <<>>
    ELSE IF Len(answerRows) = 1 THEN Lower(answerRows[1].answer_value)
    ELSE AllText(SubSeq(answerRows, 1, Len(answerRows) - 1)) \o << " " >>
         \o Lower(answerRows[Len(answerRows)].answer_value)

MinWordLength == 4

\* re.findall(r'\b[a-z]{4,}\b', text), left to right.  A match starts at a
\* \b, runs over [a-z] only and ends at a \b: it is a whole maximal run of \w
\* characters, all of them in [a-z], at least four long (a run holding a
\* digit or a letter outside a-z has no \b inside it and gives no match).
RunStarts(text) ==
    {i \in 1..Len(text) : text[i] \in WordChars /\ (i = 1 \/ text[i - 1] \notin WordChars)}
RunEnd(text, i) ==
    CHOOSE j \in i..Len(text) :
        /\ \A k \in i..j : text[k] \in WordChars
        /\ j = Len(text) \/ text[j + 1] \notin WordChars
FindRuns(text, least) ==
    LET starts == RunStarts(text)
        rank   == [i \in starts |-> Cardinality({j \in starts : j <= i})]
        runs   == [n \in 1..Cardinality(starts) |->
                      LET i == CHOOSE i \in starts : rank[i] = n
                      IN SubSeq(text, i, RunEnd(text, i))]
    IN SelectSeq(runs, LAMBDA w : Len(w) >= least /\ Range(w) \subseteq LowerLetters)
FindWords(text) == FindRuns(text, MinWordLength)

\* stop_words of the text branch.
StopWords ==
    { << "t", "h", "i", "s" >>, << "t", "h", "a", "t" >>, << "w", "i", "t", "h" >>,
      << "f", "r", "o", "m" >>, << "h", "a", "v", "e" >>, << "m", "o", "r", "e" >>,
      << "w", "i", "l", "l" >>, << "b", "e", "e", "n" >>, << "w", "e", "r", "e" >>,
      << "t", "h", "e", "y" >>, << "t", "h", "e", "i", "r" >>,
      << "w", "o", "u", "l", "d" >>, << "c", "o", "u", "l", "d" >>,
      << "s", "h", "o", "u", "l", "d" >> }

\* filtered_words: the words of all the answers, in order, without the stop
\* words.
FilteredWords(answerRows) ==
    SelectSeq(FindWords(AllText(answerRows)), LAMBDA w : w \notin StopWords)

\* s[:n]
Take(s, n) == SubSeq(s, 1, IF Len(s) < n THEN Len(s) ELSE n)

TopWords == 20
SampleSize == 5

\* Counter(filtered_words).most_common() without the limit of 20.
WordFrequenciesUncut(answerRows) ==
    LET items == MostCommon(CounterItems(FilteredWords(answerRows)))
    IN [i \in 1..Len(items) |-> [word |-> items[i].key, frequency |-> items[i].count]]

\* word_frequencies: Counter(filtered_words).most_common(20).
WordFrequencies(answerRows) ==
    LET items == Take(MostCommon(CounterItems(FilteredWords(answerRows))), TopWords)
    IN [i \in 1..Len(items) |-> [word |-> items[i].key, frequency |-> items[i].count]]

\* sample_responses: [a.answer_value for a in answers[:5]]
SampleResponses(answerRows) ==
    LET first == Take(answerRows, SampleSize)
    IN [i \in 1..Len(first) |-> first[i].answer_value]

QuestionAnalytics(q, total) ==
    [status |-> "ok", question_id |-> q.id, question_type |-> q.question_type,
     total_responses |-> total, rating_distribution |-> {}, average_rating |-> {},
     mcq_distribution |-> {}, most_selected_option |-> {},
     yes_no_distribution |-> {}, word_frequencies |-> {}, sample_responses |-> {}]

\* calculate_question_analytics(question_id, db).
calculate_question_analytics(question_id, db) ==
    LET found == {q \in db.questions : q.id = question_id}
    IN IF found = {} THEN ValueError("not found")
       ELSE
       LET question == CHOOSE q \in found : TRUE
           rows  == All({a \in db.answers : a.question_id = question_id}, db)
           total == Len(rows)
           res   == QuestionAnalytics(question, total)
       IN IF total = 0 THEN res
          ELSE IF question.question_type = "rating" THEN
               IF RatingsRaise(rows) THEN ValueError("invalid literal")
               ELSE [res EXCEPT !.rating_distribution = {RatingDistribution(rows, total)},
                                !.average_rating = {RatingAverage(rows, total)}]
          ELSE IF question.question_type = "mcq" THEN
               LET dist == McqDistribution(rows, total)
               IN [res EXCEPT !.mcq_distribution = {dist},
                              !.most_selected_option =
                                  IF dist = <<>> THEN {} ELSE {dist[1].option}]
          ELSE IF question.question_type = "yes_no" THEN
               [res EXCEPT !.yes_no_distribution = {YesNoDistribution(rows, total)}]
          ELSE IF question.question_type = "text" THEN
               [res EXCEPT !.word_frequencies = {WordFrequencies(rows)},
                           !.sample_responses = {SampleResponses(rows)}]
          ELSE res

\* The answers the summary engine averages: Answer JOIN Response JOIN
\* Question WHERE Response.form_id = form_id AND question_type = "rating".
FormRatingAnswers(form_id, db) ==
    {a \in db.answers :
        /\ \E r \in db.responses : r.id = a.response_id /\ r.form_id = form_id
        /\ \E q \in db.questions : q.id = a.question_id /\ q.question_type = "rating"}

\* avg_rating of calculate_summary_statistics as returned: the mean of the
\* parsed ratings, None when there are none and, by the truth test of line
\* 103, None when the mean is 0.
SummaryAverage(rating_rows) ==
    LET ratings == Ratings(rating_rows)
    IN IF rating_rows = <<>> \/ ratings = <<>> THEN {}
       ELSE IF SumSeq(ratings) = 0 THEN {}
       ELSE {Round2(SumSeq(ratings), Len(ratings))}

\* A datetime is a count of half days: 1 is the morning of a Monday, 2 its
\* evening, 3 the morning of the Tuesday.  strftime("%Y-%m-%d") gives the
\* calendar day, a string whose order is the order of the days; the day
\* number stands for it.
DateOf(dt) == (dt + 1) \div 2

\* The histogram with the latest date first (sorted(..., reverse=True)).
DateHistogramNewestFirst(dates) ==
    LET keys   == [i \in 1..Len(dates) |-> DateOf(dates[i])]
        sorted == SortedInts(Range(keys))
        n      == Len(sorted)
    IN [i \in 1..n |-> [date |-> sorted[n + 1 - i], count |-> CountOf(keys, sorted[n + 1 - i])]]

\* A histogram keyed by submitted_at itself, without strftime: two responses
\* of one day at different times get two entries.
HistogramOfInstants(dates) ==
    LET sorted == SortedInts(Range(dates))
    IN [i \in 1..Len(sorted) |-> [date |-> sorted[i], count |-> CountOf(dates, sorted[i])]]

\* date_counts and responses_by_date: one (date, count) per distinct date,
\* ascending.
DateHistogram(dates) ==
    LET keys   == [i \in 1..Len(dates) |-> DateOf(dates[i])]
        sorted == SortedInts(Range(keys))
    IN [i \in 1..Len(sorted) |-> [date |-> sorted[i], count |-> CountOf(keys, sorted[i])]]

SetMin(S) == IF S = {} THEN {} ELSE {CHOOSE x \in S : \A y \in S : x <= y}
SetMax(S) == IF S = {} THEN {} ELSE {CHOOSE x \in S : \A y \in S : x >= y}

\* required_questions: the number of questions of the form with is_required.
RequiredQuestions(form_id, db) ==
    Cardinality({q \in db.questions : q.form_id = form_id /\ q.is_required})

\* answer_count of a response: the number of its Answer rows.
AnswerCount(response_id, db) ==
    Cardinality({a \in db.answers : a.response_id = response_id})

\* A completion count that looks at which questions were answered: a
\* response is complete when each required question has an answer of it.
\* The code counts answers instead.
CompletedByQuestion(rows, form_id, db) ==
    Cardinality({i \in 1..Len(rows) :
        \A q \in db.questions :
            (q.form_id = form_id /\ q.is_required)
            => \E a \in db.answers : a.response_id = rows[i].id /\ a.question_id = q.id})

\* completed_responses: the responses with at least required_questions
\* answers.
CompletedResponses(rows, form_id, db) ==
    Cardinality({i \in 1..Len(rows) :
        AnswerCount(rows[i].id, db) >= RequiredQuestions(form_id, db)})

\* What the engine would return for no responses without the early return
\* of lines 38-49: the placeholder response_rate of line 98.  C12 has to
\* tell it from the zero-valued result.
SummaryFallingThrough ==
    [status |-> "ok", total_responses |-> 0, completion_rate |-> 0,
     average_rating |-> {}, anonymous_count |-> 0, identified_count |-> 0,
     response_rate |-> 10000, first_response_date |-> {}, last_response_date |-> {},
     responses_by_date |-> <<>>]

\* The result for a form without responses (lines 38-49).
EmptySummary ==
    [status |-> "ok", total_responses |-> 0, completion_rate |-> 0,
     average_rating |-> {}, anonymous_count |-> 0, identified_count |-> 0,
     response_rate |-> 0, first_response_date |-> {}, last_response_date |-> {},
     responses_by_date |-> <<>>]

\* calculate_summary_statistics(form_id, db)
calculate_summary_statistics(form_id, db) ==
    LET rows  == All({r \in db.responses : r.form_id = form_id}, db)
        total == Len(rows)
        rating_rows == All(FormRatingAnswers(form_id, db), db)
        completed == CompletedResponses(rows, form_id, db)
        anonymous == Cardinality({i \in 1..total : rows[i].is_anonymous})
        dates == [i \in 1..total |-> rows[i].submitted_at]
    IN IF total = 0 THEN EmptySummary
       ELSE IF RatingsRaise(rating_rows) THEN ValueError("invalid literal")
       ELSE
           [status |-> "ok", total_responses |-> total,
            completion_rate |-> Round2(completed * 100, total),
            average_rating |-> SummaryAverage(rating_rows),
            anonymous_count |-> anonymous, identified_count |-> total - anonymous,
            response_rate |-> 10000,
            first_response_date |-> SetMin(Range(dates)),
            last_response_date |-> SetMax(Range(dates)),
            responses_by_date |-> DateHistogram(dates)]

\* datetime.weekday(): Monday is 0; day 1 is a Monday.
Weekday(dt) == (DateOf(dt) - 1) % 7

\* A weekly key that takes the Sunday on or before the date (the week of
\* isoweekday() % 7).
DateKeyFromSunday(period, submitted_at) ==
    IF period = "daily" THEN DateOf(submitted_at)
    ELSE DateOf(submitted_at - 2 * ((Weekday(submitted_at) + 1) % 7))

\* The bucket key of a response: its date, or the date of submitted_at -
\* timedelta(days=weekday), the Monday of its week.
DateKey(period, submitted_at) ==
    IF period = "daily" THEN DateOf(submitted_at)
    ELSE DateOf(submitted_at - 2 * Weekday(submitted_at))

\* The rating answers of one response: Answer JOIN Question WHERE
\* response_id = id AND question_type = "rating".
ResponseRatingAnswers(response_id, db) ==
    {a \in db.answers :
        /\ a.response_id = response_id
        /\ \E q \in db.questions : q.id = a.question_id /\ q.question_type = "rating"}

\* A peak that takes, among the keys with the maximum count, the earliest
\* date (max over sorted(date_groups)).
PeakKeyEarliestDate(keys, counts) ==
    CHOOSE k \in Range(keys) :
        /\ \A j \in Range(keys) : counts[j] <= counts[k]
        /\ \A j \in Range(keys) : counts[j] = counts[k] => k <= j

\* max(date_groups, key=date_groups.get): the first key, in the dict's
\* insertion order, whose count is the maximum.
PeakKey(keys, counts) ==
    LET i == CHOOSE i \in 1..Len(keys) :
                /\ \A j \in 1..Len(keys) : counts[keys[j]] <= counts[keys[i]]
                /\ \A j \in 1..(i - 1) : counts[keys[j]] < counts[keys[i]]
    IN keys[i]

RECURSIVE ConcatAll(_)
ConcatAll(ss) == IF ss = <<>> THEN <<>> ELSE Head(ss) \o ConcatAll(Tail(ss))

\* The points of date_groups.items() as the dict yields them, without
\* sorted().
ResponseTrendUnsorted(keys, date_groups) ==
    [i \in 1..Len(keys) |->
        [date |-> keys[i], value |-> date_groups[keys[i]] * 100,
         count |-> date_groups[keys[i]]]]

\* response_trend: a point per key of date_groups, sorted by key, value =
\* float(count).
ResponseTrend(keys, date_groups) ==
    LET sorted == SortedInts(Range(keys))
    IN [i \in 1..Len(sorted) |->
            [date |-> sorted[i], value |-> date_groups[sorted[i]] * 100,
             count |-> date_groups[sorted[i]]]]

\* calculate_trends(form_id, period, db)
calculate_trends(form_id, period, db) ==
    IF ~\E f \in db.forms : f.id = form_id THEN ValueError("not found")
    ELSE
    LET rows == All({r \in db.responses : r.form_id = form_id}, db)
        keyOf(r) == DateKey(period, r.submitted_at)
        keySeq == [i \in 1..Len(rows) |-> keyOf(rows[i])]
        keys == InsertionKeys(keySeq)
        date_groups == [k \in Range(keys) |-> CountOf(keySeq, k)]
        ratingRows(r) == All(ResponseRatingAnswers(r.id, db), db)
        raises == \E i \in 1..Len(rows) : RatingsRaise(ratingRows(rows[i]))
        bucketRatings(k) ==
            LET inBucket == SelectSeq(rows, LAMBDA r : keyOf(r) = k)
            IN ConcatAll([i \in 1..Len(inBucket) |-> Ratings(ratingRows(inBucket[i]))])
        ratingKeys == {k \in Range(keys) : bucketRatings(k) # <<>>}
    IN IF raises THEN ValueError("invalid literal")
       ELSE
       [status |-> "ok", form_id |-> form_id, period |-> period,
        response_trend |-> ResponseTrend(keys, date_groups),
        rating_trend |->
            IF ratingKeys = {} THEN {}
            ELSE LET sorted == SortedInts(ratingKeys)
                 IN {[i \in 1..Len(sorted) |->
                        [date |-> sorted[i],
                         value |-> Round2(SumSeq(bucketRatings(sorted[i])),
                                          Len(bucketRatings(sorted[i]))),
                         count |-> Len(bucketRatings(sorted[i]))]]},
        peak_response_date |-> IF keys = <<>> THEN {} ELSE {PeakKey(keys, date_groups)},
        peak_response_count |->
            IF keys = <<>> THEN {} ELSE {date_groups[PeakKey(keys, date_groups)]}]

\* The answers analyze_sentiment reads: Answer JOIN Question WHERE
\* Question.form_id = form_id AND question_type = "text".
FormTextAnswers(form_id, db) ==
    {a \in db.answers :
        \E q \in db.questions :
            q.id = a.question_id /\ q.form_id = form_id /\ q.question_type = "text"}

\* positive_words and negative_words of analyze_sentiment.
PositiveWords ==
    { << "e", "x", "c", "e", "l", "l", "e", "n", "t" >>,
      << "g", "r", "e", "a", "t" >>,
      << "g", "o", "o", "d" >>,
      << "l", "o", "v", "e" >>,
      << "a", "m", "a", "z", "i", "n", "g" >>,
      << "w", "o", "n", "d", "e", "r", "f", "u", "l" >>,
      << "h", "e", "l", "p", "f", "u", "l" >>,
      << "c", "l", "e", "a", "r" >>,
      << "b", "e", "s", "t" >>,
      << "a", "w", "e", "s", "o", "m", "e" >>,
      << "f", "a", "n", "t", "a", "s", "t", "i", "c" >>,
      << "p", "e", "r", "f", "e", "c", "t" >> }
NegativeWords ==
    { << "b", "a", "d" >>,
      << "p", "o", "o", "r" >>,
      << "t", "e", "r", "r", "i", "b", "l", "e" >>,
      << "w", "o", "r", "s", "t" >>,
      << "b", "o", "r", "i", "n", "g" >>,
      << "d", "i", "f", "f", "i", "c", "u", "l", "t" >>,
      << "c", "o", "n", "f", "u", "s", "i", "n", "g" >>,
      << "u", "n", "c", "l", "e", "a", "r" >>,
      << "u", "s", "e", "l", "e", "s", "s" >>,
      << "h", "a", "t", "e" >>,
      << "d", "i", "s", "a", "p", "p", "o", "i", "n", "t", "i", "n", "g" >> }

\* set(re.findall(r'\b[a-z]+\b', answer_value.lower())): the runs of \w
\* characters that are letters a-z throughout, of any length, as a set.
AnswerWords(v) == Range(FindRuns(Lower(v), 1))

FullConfidence == 3
Min(a, b) == IF a < b THEN a ELSE b

\* The loop counting every occurrence of a keyword instead of the distinct
\* keywords (a list of the words where the code takes their set).
ScoreByOccurrences(a) ==
    LET words     == FindRuns(Lower(a.answer_value), 1)
        pos_count == Len(SelectSeq(words, LAMBDA w : w \in PositiveWords))
        neg_count == Len(SelectSeq(words, LAMBDA w : w \in NegativeWords))
    IN [answer |-> a, pos_count |-> pos_count, neg_count |-> neg_count,
        sentiment |-> IF pos_count > neg_count THEN "positive"
                      ELSE IF neg_count > pos_count THEN "negative"
                      ELSE "neutral",
        thirds |-> IF pos_count > neg_count THEN Min(pos_count, FullConfidence)
                   ELSE Min(neg_count, FullConfidence)]

\* One pass of the loop over text_answers: the answer with its counts of
\* distinct positive and negative words, its sentiment, and the confidence
\* min(count / 3.0, 1.0) of a positive or negative answer as a number of
\* thirds (the value the lists are sorted by; neutral's 0.5 is not in
\* thirds and is given by RoundedConfidence).
Score(a) ==
    LET words     == AnswerWords(a.answer_value)
        pos_count == Cardinality(words \cap PositiveWords)
        neg_count == Cardinality(words \cap NegativeWords)
    IN [answer |-> a, pos_count |-> pos_count, neg_count |-> neg_count,
        sentiment |-> IF pos_count > neg_count THEN "positive"
                      ELSE IF neg_count > pos_count THEN "negative"
                      ELSE "neutral",
        thirds |-> IF pos_count > neg_count THEN Min(pos_count, FullConfidence)
                   ELSE Min(neg_count, FullConfidence)]

\* round(confidence, 2) in hundredths.
RoundedConfidence(score) ==
    IF score.sentiment = "neutral" THEN 50
    ELSE Round2(score.thirds, FullConfidence)

TextLimit == 100
\* answer_value[:100] + "..." if len(answer_value) > 100 else answer_value
TruncatedText(v) ==
    IF Len(v) > TextLimit THEN SubSeq(v, 1, TextLimit) \o << ".", ".", "." >> ELSE v

\* An ascending sort read backwards: by decreasing confidence, but equal
\* confidences in the reverse of the order they had.
RECURSIVE SortAscendingReversed(_)
SortAscendingReversed(scores) ==
    IF scores = <<>> THEN <<>>
    ELSE LET i == CHOOSE i \in 1..Len(scores) :
                    /\ \A j \in 1..Len(scores) : scores[j].thirds <= scores[i].thirds
                    /\ \A j \in (i + 1)..Len(scores) : scores[j].thirds < scores[i].thirds
         IN <<scores[i]>> \o
            SortAscendingReversed(SubSeq(scores, 1, i - 1)
                                    \o SubSeq(scores, i + 1, Len(scores)))

\* list.sort(key=confidence, reverse=True): by decreasing confidence, equal
\* confidences in the order they had (the sort is stable, also reversed).
RECURSIVE SortByConfidence(_)
SortByConfidence(scores) ==
    IF scores = <<>> THEN <<>>
    ELSE LET i == CHOOSE i \in 1..Len(scores) :
                    /\ \A j \in 1..Len(scores) : scores[j].thirds <= scores[i].thirds
                    /\ \A j \in 1..(i - 1) : scores[j].thirds < scores[i].thirds
         IN <<scores[i]>> \o
            SortByConfidence(SubSeq(scores, 1, i - 1) \o SubSeq(scores, i + 1, Len(scores)))

TopResponses == 5

\* top_positive / top_negative: the first five of the sorted class, each as
\* a SentimentScore.
TopOfClass(scores, class) ==
    LET top == Take(SortByConfidence(SelectSeq(scores, LAMBDA x : x.sentiment = class)),
                    TopResponses)
    IN [i \in 1..Len(top) |->
            [response_id |-> top[i].answer.response_id,
             question_id |-> top[i].answer.question_id,
             text |-> TruncatedText(top[i].answer.answer_value), sentiment |-> class,
             confidence |-> RoundedConfidence(top[i])]]

\* An overall sentiment by plain majority, without the factor 2.
OverallByMajority(positive_count, negative_count) ==
    IF positive_count > negative_count THEN "mostly positive"
    ELSE IF negative_count > positive_count THEN "mostly negative"
    ELSE "mixed"

\* overall: the comparison of the two counts after the loop.
OverallSentiment(positive_count, negative_count) ==
    IF positive_count > negative_count * 2 THEN "mostly positive"
    ELSE IF negative_count > positive_count * 2 THEN "mostly negative"
    ELSE "mixed"

ThemeWordLength == 5
TopThemes == 10
\* stop_words of the key themes.
ThemeStopWords ==
    { << "t", "h", "i", "s" >>,
      << "t", "h", "a", "t" >>,
      << "w", "i", "t", "h" >>,
      << "f", "r", "o", "m" >>,
      << "h", "a", "v", "e" >>,
      << "m", "o", "r", "e" >>,
      << "w", "o", "u", "l", "d" >>,
      << "c", "o", "u", "l", "d" >>,
      << "s", "h", "o", "u", "l", "d" >> }

\* key_themes: the ten most common words of five letters or more.
KeyThemes(rows) ==
    LET filtered == SelectSeq(FindRuns(AllText(rows), ThemeWordLength),
                              LAMBDA w : w \notin ThemeStopWords)
        items    == Take(MostCommon(CounterItems(filtered)), TopThemes)
    IN [i \in 1..Len(items) |-> items[i].key]

\* The SentimentAnalytics returned for a form without text answers.
NoSentimentData(form_id) ==
    [status |-> "ok", form_id |-> form_id, total_text_responses |-> 0,
     summary |-> [positive_count |-> 0, negative_count |-> 0, neutral_count |-> 0,
                  positive_percentage |-> 0, negative_percentage |-> 0,
                  neutral_percentage |-> 0, overall_sentiment |-> "no data"],
     top_positive_responses |-> <<>>, top_negative_responses |-> <<>>,
     key_themes |-> <<>>]

\* analyze_sentiment(form_id, db).
analyze_sentiment(form_id, db) ==
    IF ~\E f \in db.forms : f.id = form_id THEN ValueError("not found")
    ELSE
    LET text_answers   == All(FormTextAnswers(form_id, db), db)
        total          == Len(text_answers)
        scores         == [i \in 1..total |-> Score(text_answers[i])]
        positive_count == Len(SelectSeq(scores, LAMBDA x : x.sentiment = "positive"))
        negative_count == Len(SelectSeq(scores, LAMBDA x : x.sentiment = "negative"))
        neutral_count  == total - positive_count - negative_count
    IN IF total = 0 THEN NoSentimentData(form_id)
       ELSE
       [status |-> "ok", form_id |-> form_id, total_text_responses |-> total,
        summary |-> [positive_count |-> positive_count,
                     negative_count |-> negative_count,
                     neutral_count |-> neutral_count,
                     positive_percentage |-> Round2(positive_count * 100, total),
                     negative_percentage |-> Round2(negative_count * 100, total),
                     neutral_percentage |-> Round2(neutral_count * 100, total),
                     overall_sentiment |-> OverallSentiment(positive_count, negative_count)],
        top_positive_responses |-> TopOfClass(scores, "positive"),
        top_negative_responses |-> TopOfClass(scores, "negative"),
        key_themes |-> KeyThemes(text_answers)]

---------------------------------------------------------------------------
(* Spec: the engines as functions of the rows.  Init draws a store that    *)
(* submissions can build: one published form with one question, and up to  *)
(* MaxResponses responses of distinct students, each with one answer whose *)
(* value is any non-empty string (AnswerCreate only asks min_length = 1).  *)
(* The actions call the engines; the store does not change.                *)

\* The answer strings tried: "5", "3", "0", "x", "-3" and superscript two.
AnswerValueSeq == << <<"5">>, <<"3">>, <<"0">>, <<"x">>, <<"-", "3">>, <<"SUP2">> >>
AnswerValues == Range(AnswerValueSeq)
ValueIndex(v) == CHOOSE i \in 1..Len(AnswerValueSeq) : AnswerValueSeq[i] = v

\* Submission times: a Monday morning and evening, the Wednesday after it,
\* the Sunday evening of that week, the next Monday morning.
SubmitTimes == {1, 2, 5, 14, 15}
EngineQuestionTypes == {"rating", "mcq"}

\* What one response is made of: its answer, its day, its anonymity flag.
\* Identified responses take every answer on the first time and "5" on the
\* others; an anonymous one is "5" on the first time.
Profiles ==
    [value : AnswerValues, day : {1}, anon : {FALSE}]
        \cup [value : {<<"5">>}, day : SubmitTimes, anon : {FALSE}]
        \cup [value : {<<"5">>}, day : {1}, anon : {TRUE}]
ProfileKey(p) == ValueIndex(p.value) * 100 + p.day * 2 + (IF p.anon THEN 1 ELSE 0)

\* The orders a query may return rows in: by id, by descending id, and by
\* id starting from the second row.
RowIds == 1..MaxResponses
RowOrders ==
    {[i \in RowIds |-> i],
     [i \in RowIds |-> MaxResponses + 1 - i],
     [i \in RowIds |-> IF i = 1 THEN MaxResponses + 1 ELSE i]}

NoResult ==
    [engine |-> "none", id |-> 0, period |-> "", rowOrder |-> <<>>,
     out |-> [status |-> "none"]]
NoRequests == <<>>

PublishedForm(id) ==
    [id |-> id, org_id |-> 1, instructor_id |-> 1, status |-> "published",
     open_date |-> {}, close_date |-> {}]

\* Ids are serial, so the rows are drawn in one order of their contents; the
\* order the database returns them in is drawn at each call.
EngineInit ==
    /\ forms = {PublishedForm(1)}
    /\ \E t \in EngineQuestionTypes :
        questions = {[id |-> 1, form_id |-> 1, question_type |-> t,
                      is_required |-> TRUE, order |-> 1]}
    /\ \E n \in 0..MaxResponses : \E p \in [1..n -> Profiles] :
        /\ \A i \in 1..(n - 1) : ProfileKey(p[i]) <= ProfileKey(p[i + 1])
        /\ responses = {[id |-> i, form_id |-> 1, student_id |-> i + 1,
                         submitted_at |-> p[i].day, is_anonymous |-> p[i].anon] : i \in 1..n}
        /\ answers = {[id |-> i, response_id |-> i, question_id |-> 1,
                       answer_value |-> p[i].value] : i \in 1..n}
        /\ nextId = [forms |-> 2, questions |-> 2, responses |-> n + 1, answers |-> n + 1]
    /\ now = 1
    /\ reqs = NoRequests
    /\ result = NoResult
    /\ commitLog = <<>>

\* Ids a caller may pass: the existing row 1 and the missing row 2.
CallIds == {1, 2}
Periods == {"daily", "weekly"}

CallSummary ==
    /\ \E id \in CallIds, rk \in RowOrders :
        result' = [engine |-> "summary", id |-> id, period |-> "", rowOrder |-> rk,
                   out |-> calculate_summary_statistics(id, Db(rk))]
    /\ UNCHANGED <<store, now, reqs, commitLog>>

CallQuestion ==
    /\ \E id \in CallIds, rk \in RowOrders :
        result' = [engine |-> "question", id |-> id, period |-> "", rowOrder |-> rk,
                   out |-> calculate_question_analytics(id, Db(rk))]
    /\ UNCHANGED <<store, now, reqs, commitLog>>

CallTrends ==
    /\ \E id \in CallIds, period \in Periods, rk \in RowOrders :
        result' = [engine |-> "trends", id |-> id, period |-> period, rowOrder |-> rk,
                   out |-> calculate_trends(id, period, Db(rk))]
    /\ UNCHANGED <<store, now, reqs, commitLog>>

CallSentiment ==
    /\ \E id \in CallIds, rk \in RowOrders :
        result' = [engine |-> "sentiment", id |-> id, period |-> "", rowOrder |-> rk,
                   out |-> analyze_sentiment(id, Db(rk))]
    /\ UNCHANGED <<store, now, reqs, commitLog>>

EngineNext == CallSummary \/ CallQuestion \/ CallTrends \/ CallSentiment

Spec == EngineInit /\ [][EngineNext]_vars

---------------------------------------------------------------------------
(* Properties of the engines, checked under Spec *)

\* The answer rows of a question, and those int() parses.
AnswersOf(question_id) == {a \in answers : a.question_id = question_id}
ParseableOf(question_id) == {a \in AnswersOf(question_id) : IntParses(a.answer_value)}

RECURSIVE SumValues(_)
SumValues(S) ==
    IF S = {} THEN 0
    ELSE LET a == CHOOSE a \in S : TRUE
         IN IntValue(a.answer_value) + SumValues(S \ {a})

\* An answer string on which str.isdigit() and int() agree: an unsigned run
\* of decimal digits, or text that is no number at all.
PlainValue(v) == IsDigit(v) <=> IntParses(v)

RatingQuestions == {q \in questions : q.question_type = "rating"}

\* The last call was calculate_question_analytics of rating question q,
\* which has at least one answer.
RatingCall(q) ==
    /\ result.engine = "question"
    /\ result.id = q.id
    /\ q.question_type = "rating"
    /\ AnswersOf(q.id) # {}

\* C1: for a rating question with at least one answer, average_rating is the
\* sum of the parseable answer values divided by the number of parseable
\* answers, rounded to two decimals (13/3 = 4.33 for 5, 5, 3, x).  Stated on
\* the answers every reading of "parseable" agrees on, and on questions with
\* a parseable answer.
C1_AverageOverParseable ==
    \A q \in questions :
        (/\ RatingCall(q)
         /\ \A a \in AnswersOf(q.id) : PlainValue(a.answer_value)
         /\ ParseableOf(q.id) # {})
        => /\ result.out.status = "ok"
           /\ result.out.average_rating =
                {Round2(SumValues(ParseableOf(q.id)), Cardinality(ParseableOf(q.id)))}

\* The rating answers of a form, as the summary engine joins them.
FormRatingRows(form_id) == FormRatingAnswers(form_id, Db([i \in RowIds |-> i]))
FormParseable(form_id) == {a \in FormRatingRows(form_id) : IntParses(a.answer_value)}

\* C2: for a form with at least one response, the summary's average_rating
\* is None exactly when no rating answer of the form parses as an integer,
\* and otherwise the mean of the parseable values (0.0 when they are all 0).
\* Stated on the answers every reading of "parseable" agrees on.
C2_SummaryAverageNoneIffNoRating ==
    \A f \in forms :
        (/\ result.engine = "summary"
         /\ result.id = f.id
         /\ \E r \in responses : r.form_id = f.id
         /\ \A a \in FormRatingRows(f.id) : PlainValue(a.answer_value))
        => /\ result.out.status = "ok"
           /\ (result.out.average_rating = {}) <=> (FormParseable(f.id) = {})
           /\ FormParseable(f.id) # {} =>
                result.out.average_rating =
                    {Round2(SumValues(FormParseable(f.id)), Cardinality(FormParseable(f.id)))}

RECURSIVE SumCounts(_)
SumCounts(dist) == IF dist = <<>> THEN 0 ELSE Head(dist).count + SumCounts(Tail(dist))

\* C3: whatever strings the rating answers hold, the summary, question and
\* trends engines complete without raising on them, and only answers that
\* parse as integers are counted in the rating histogram.
C3_ParseSkipNeverRaises ==
    /\ result.engine \in {"summary", "question", "trends"}
        => ~(result.out.status = "ValueError" /\ result.out.detail = "invalid literal")
    /\ \A q \in questions :
        (RatingCall(q) /\ result.out.status = "ok")
        => \A dist \in result.out.rating_distribution :
            /\ SumCounts(dist) <= Cardinality(ParseableOf(q.id))
            /\ \A i \in 1..Len(dist) :
                \E a \in ParseableOf(q.id) : IntValue(a.answer_value) = dist[i].rating

\* C6: two calls of an engine with the same arguments on the same rows
\* return identical results, whatever order the store returns the rows in.
C6_EnginesIgnoreRowOrder ==
    [][(/\ result.engine # "none"
        /\ result'.engine = result.engine
        /\ result'.id = result.id
        /\ result'.period = result.period
        /\ UNCHANGED <<forms, questions, responses, answers>>)
       => result'.out = result.out]_vars

\* The histogram the claim describes: one entry per distinct value of the
\* parseable answers, with its count and its share of all n answers.
ClaimedHistogram(question_id, n) ==
    {[rating |-> v,
      count |-> Cardinality({a \in ParseableOf(question_id) : IntValue(a.answer_value) = v}),
      percentage |->
        Round2(Cardinality({a \in ParseableOf(question_id) : IntValue(a.answer_value) = v}) * 100, n)]
     : v \in {IntValue(a.answer_value) : a \in ParseableOf(question_id)}}

\* C10: for a rating question with N > 0 answers, rating_distribution has
\* exactly one entry per distinct integer-parseable answer value, with count
\* the number of answers of that value and percentage count / N * 100
\* rounded to two decimals, N counting the unparseable answers too.
C10_RatingHistogram ==
    \A q \in questions :
        RatingCall(q)
        => /\ result.out.status = "ok"
           /\ \E dist \in result.out.rating_distribution :
                /\ Range(dist) = ClaimedHistogram(q.id, Cardinality(AnswersOf(q.id)))
                /\ Len(dist) = Cardinality(Range(dist))

\* C12: for a form with no Response row the summary engine returns, without
\* failing, total_responses, anonymous_count and identified_count 0,
\* completion_rate and response_rate 0.0, average_rating None, no first or
\* last response date and an empty responses_by_date.
C12_ZeroResponsesZeroSummary ==
    (/\ result.engine = "summary"
     /\ ~\E x \in responses : x.form_id = result.id)
    => /\ result.out.status = "ok"
       /\ result.out.total_responses = 0
       /\ result.out.anonymous_count = 0 /\ result.out.identified_count = 0
       /\ result.out.completion_rate = 0 /\ result.out.response_rate = 0
       /\ result.out.average_rating = {}
       /\ result.out.first_response_date = {} /\ result.out.last_response_date = {}
       /\ result.out.responses_by_date = <<>>

\* The summary of the existing form 1 when nobody has responded.
C12_Witness ==
    /\ result.engine = "summary" /\ result.id = 1
    /\ \E f \in forms : f.id = 1
    /\ responses = {}

\* The responses of form id.
ResponsesOf(id) == {x \in responses : x.form_id = id}

\* C13: responses_by_date of the summary has exactly one entry per distinct
\* calendar date of the form's responses, its count is the number of
\* responses of that date, the dates are strictly ascending and the counts
\* sum to total_responses.
C13_ResponsesByDate ==
    (result.engine = "summary" /\ result.out.status = "ok")
    => LET hist == result.out.responses_by_date
           rs   == ResponsesOf(result.id)
       IN /\ {hist[i].date : i \in 1..Len(hist)} = {DateOf(x.submitted_at) : x \in rs}
          /\ \A i \in 1..Len(hist) :
                hist[i].count =
                    Cardinality({x \in rs : DateOf(x.submitted_at) = hist[i].date})
          /\ \A i, j \in 1..Len(hist) : i < j => hist[i].date < hist[j].date
          /\ SumSeq([i \in 1..Len(hist) |-> hist[i].count]) = result.out.total_responses
          /\ result.out.total_responses = Cardinality(rs)

\* A summary of three responses, two of them on one day at different
\* times and inserted after the response of a later day.
C13_Witness ==
    /\ result.engine = "summary" /\ result.out.status = "ok"
    /\ Len(result.out.responses_by_date) = 2
    /\ \E x, y, z \in ResponsesOf(result.id) :
        /\ x.submitted_at # y.submitted_at
        /\ DateOf(x.submitted_at) = DateOf(y.submitted_at)
        /\ DateOf(z.submitted_at) > DateOf(x.submitted_at)
        /\ z.id < x.id

\* Day 1 is a Monday: the Mondays are the days 1, 8, 15, ...; two days are
\* of one Monday-to-Sunday week when no Monday lies after one and up to the
\* other.
IsMonday(day) == day % 7 = 1
SameWeek(d1, d2) ==
    ~\E m \in 1..(d1 + d2) : IsMonday(m) /\ ((d1 < m /\ m <= d2) \/ (d2 < m /\ m <= d1))

\* C14: weekly trends put a response in the bucket keyed by the Monday on or
\* before its submission date, so that two responses share a bucket exactly
\* when they are of one Monday-to-Sunday week; daily trends key the bucket
\* by the submission date.
C14_WeeklyBuckets ==
    (result.engine = "trends" /\ result.out.status = "ok")
    => LET trend == result.out.response_trend
           rs    == ResponsesOf(result.id)
           day(x) == DateOf(x.submitted_at)
           together(x, y) ==
                IF result.period = "weekly" THEN SameWeek(day(x), day(y))
                ELSE day(x) = day(y)
           keyed(x, k) ==
                IF result.period = "weekly"
                THEN IsMonday(k) /\ k <= day(x) /\ day(x) <= k + 6
                ELSE k = day(x)
       IN /\ \A x \in rs : \E i \in 1..Len(trend) :
                /\ keyed(x, trend[i].date)
                /\ trend[i].count = Cardinality({y \in rs : together(x, y)})
          /\ \A i \in 1..Len(trend) : \E x \in rs : keyed(x, trend[i].date)

\* Weekly trends of a Wednesday, the Sunday of that week and the Monday
\* after it: two buckets.
C14_Witness ==
    /\ result.engine = "trends" /\ result.period = "weekly" /\ result.out.status = "ok"
    /\ Len(result.out.response_trend) = 2
    /\ \E x, y, z \in ResponsesOf(result.id) :
        /\ DateOf(x.submitted_at) = 3
        /\ DateOf(y.submitted_at) = 7
        /\ DateOf(z.submitted_at) = 8

\* C15: response_trend has exactly one point per non-empty bucket, in
\* strictly ascending key order, with count the number of the form's
\* responses of the bucket and value equal to the count; the counts sum to
\* the number of responses of the form.
C15_ResponseTrend ==
    (result.engine = "trends" /\ result.out.status = "ok")
    => LET trend == result.out.response_trend
           rs    == ResponsesOf(result.id)
           key(x) == DateKey(result.period, x.submitted_at)
       IN /\ {trend[i].date : i \in 1..Len(trend)} = {key(x) : x \in rs}
          /\ \A i, j \in 1..Len(trend) : i < j => trend[i].date < trend[j].date
          /\ \A i \in 1..Len(trend) :
                /\ trend[i].count = Cardinality({x \in rs : key(x) = trend[i].date})
                /\ trend[i].value = 100 * trend[i].count
          /\ SumSeq([i \in 1..Len(trend) |-> trend[i].count]) = Cardinality(rs)

\* Daily trends of three responses of two days, a response of the later
\* day inserted first.
C15_Witness ==
    /\ result.engine = "trends" /\ result.period = "daily" /\ result.out.status = "ok"
    /\ Len(result.out.response_trend) = 2
    /\ Cardinality(ResponsesOf(result.id)) = 3
    /\ \E x, y \in ResponsesOf(result.id) :
        x.id < y.id /\ DateOf(x.submitted_at) > DateOf(y.submitted_at)

\* The rating answers of the responses of form id in bucket k that parse
\* as an integer.
ParseableInBucket(id, period, k) ==
    {a \in answers :
        /\ IntParses(a.answer_value)
        /\ \E q \in questions : q.id = a.question_id /\ q.question_type = "rating"
        /\ \E x \in ResponsesOf(id) :
                x.id = a.response_id /\ DateKey(period, x.submitted_at) = k}

\* v, in hundredths, is the mean of the values of the answers of S rounded
\* to two decimals.
IsMeanOf(v, S) ==
    LET n   == Cardinality(S)
        sum == SumValues(S)
    IN /\ 2 * (v * n - sum * 100) <= n
       /\ 2 * (sum * 100 - v * n) <= n

\* C16: rating_trend has a point for a bucket exactly when a rating answer
\* of a response of the bucket parses as an integer; its value is the mean
\* of those ratings and its count their number; rating_trend is None
\* exactly when no bucket has a parseable rating.
C16_RatingTrend ==
    (result.engine = "trends" /\ result.out.status = "ok")
    => LET rs == ResponsesOf(result.id)
           buckets == {DateKey(result.period, x.submitted_at) : x \in rs}
           rated == {k \in buckets : ParseableInBucket(result.id, result.period, k) # {}}
       IN IF rated = {} THEN result.out.rating_trend = {}
          ELSE \E trend \in result.out.rating_trend :
                /\ {trend[i].date : i \in 1..Len(trend)} = rated
                /\ Len(trend) = Cardinality(rated)
                /\ \A i \in 1..Len(trend) :
                    LET S == ParseableInBucket(result.id, result.period, trend[i].date)
                    IN trend[i].count = Cardinality(S) /\ IsMeanOf(trend[i].value, S)

\* C17: with at least one response, peak_response_count is the maximum
\* count over the buckets and peak_response_date is the bucket with that
\* count whose first response the store returned earliest; with no response
\* both are None.
C17_PeakIsFirstMaximum ==
    (result.engine = "trends" /\ result.out.status = "ok")
    => LET rs == ResponsesOf(result.id)
           key(x) == DateKey(result.period, x.submitted_at)
           count(k) == Cardinality({x \in rs : key(x) = k})
           returned_before(k1, k2) ==
                \E x \in rs : /\ key(x) = k1
                               /\ \A y \in rs : key(y) = k2
                                    => result.rowOrder[x.id] < result.rowOrder[y.id]
       IN IF rs = {}
          THEN result.out.peak_response_date = {} /\ result.out.peak_response_count = {}
          ELSE \E x \in rs :
                /\ result.out.peak_response_date = {key(x)}
                /\ result.out.peak_response_count = {count(key(x))}
                /\ \A y \in rs : count(key(y)) <= count(key(x))
                /\ \A y \in rs : (count(key(y)) = count(key(x)) /\ key(y) # key(x))
                                    => returned_before(key(x), key(y))

\* Two buckets with the same count, the rows of the later one returned
\* first: the peak is the later date.
C17_Witness ==
    /\ result.engine = "trends" /\ result.out.status = "ok"
    /\ Len(result.out.response_trend) = 2
    /\ result.out.response_trend[1].count = result.out.response_trend[2].count
    /\ result.out.peak_response_date = {result.out.response_trend[2].date}

---------------------------------------------------------------------------
(* The request handlers.  A handler runs in its own session; PostgreSQL's  *)
(* default isolation is READ COMMITTED, so each query of a handler sees    *)
(* what is committed when it runs and the handlers of concurrent requests  *)
(* interleave between their queries and their commit.  A handler is one    *)
(* action per query/commit; reqs[r].pc is the statement request r is at.   *)

\* The users of the system (table users): id, organization, role.
Users ==
    {[id |-> 1, org_id |-> 1, role |-> "instructor"],
     [id |-> 2, org_id |-> 1, role |-> "student"],
     [id |-> 3, org_id |-> 1, role |-> "student"],
     [id |-> 4, org_id |-> 2, role |-> "student"],
     [id |-> 5, org_id |-> 1, role |-> "admin"],
     [id |-> 6, org_id |-> 1, role |-> "instructor"],
     [id |-> 7, org_id |-> 2, role |-> "admin"],
     [id |-> 8, org_id |-> 1, role |-> "student"]}
User(id) == CHOOSE u \in Users : u.id = id

MaxRequests == 2
MaxTime == 3
ReqIds == 1..MaxRequests

IdleRequest ==
    [op |-> "none", pc |-> "idle", user |-> 0, form_id |-> 0, question_id |-> 0,
     body |-> <<>>, status |-> 0, loc |-> <<>>]

\* raise HTTPException(status_code): the handler ends.
Raise(r, code) == [reqs EXCEPT ![r].pc = "done", ![r].status = code]
Goto(r, pc) == [reqs EXCEPT ![r].pc = pc]

FormRow(tbl, form_id) == CHOOSE f \in tbl : f.id = form_id
HasForm(tbl, form_id) == \E f \in tbl : f.id = form_id

\* Steps 3 and 4 of submit_feedback_response: the form takes responses at
\* time t when it is published and t is within its open and close dates.
AcceptsResponses(form, t) ==
    /\ form.status = "published"
    /\ \A open \in form.open_date : ~(t < open)
    /\ \A close \in form.close_date : ~(t > close)

\* Tick: the clock advances.
Tick ==
    /\ now < MaxTime
    /\ now' = now + 1
    /\ UNCHANGED <<store, reqs, result, commitLog>>

\* The request bodies tried (ResponseCreate): question 1 is required,
\* question 2 is optional, question 9 does not exist.
SubmitBodies ==
    {[is_anonymous |-> FALSE, answers |-> <<[question_id |-> 1, answer_value |-> <<"5">>]>>],
     [is_anonymous |-> TRUE,
      answers |-> <<[question_id |-> 1, answer_value |-> <<"x">>],
                    [question_id |-> 2, answer_value |-> <<"3">>]>>],
     [is_anonymous |-> FALSE, answers |-> <<[question_id |-> 2, answer_value |-> <<"5">>]>>],
     [is_anonymous |-> FALSE,
      answers |-> <<[question_id |-> 1, answer_value |-> <<"5">>],
                    [question_id |-> 9, answer_value |-> <<"5">>]>>]}
Submitters == {2, 3, 4}
SubmitFormIds == {1, 2}

\* submit_feedback_response, steps 1 to 4: find the form, check the
\* organization, the status and the dates.
SubmitFindForm(r) ==
    /\ reqs[r].pc = "idle"
    /\ \E u \in Submitters, form_id \in SubmitFormIds, body \in SubmitBodies :
        LET started == [reqs EXCEPT ![r] =
                [IdleRequest EXCEPT !.op = "submit", !.user = u, !.form_id = form_id,
                                    !.body = body]]
        IN reqs' =
            IF ~HasForm(forms, form_id)
            THEN [started EXCEPT ![r].pc = "done", ![r].status = 404]
            ELSE LET form == FormRow(forms, form_id)
                     seen == [started EXCEPT ![r].loc = [seen_status |-> form.status]]
                 IN IF form.org_id # User(u).org_id
                    THEN [seen EXCEPT ![r].pc = "done", ![r].status = 403]
                    ELSE IF ~AcceptsResponses(form, now)
                    THEN [seen EXCEPT ![r].pc = "done", ![r].status = 400]
                    ELSE [seen EXCEPT ![r].pc = "existing"]
    /\ UNCHANGED <<store, now, result, commitLog>>

\* Step 5: has the user already submitted?
SubmitCheckExisting(r) ==
    /\ reqs[r].op = "submit" /\ reqs[r].pc = "existing"
    /\ reqs' =
        IF \E x \in responses :
            x.form_id = reqs[r].form_id /\ x.student_id = reqs[r].user
        THEN Raise(r, 400)
        ELSE Goto(r, "validate")
    /\ UNCHANGED <<store, now, result, commitLog>>

\* Steps 6 to 8: load the questions of the form; every required question is
\* answered and every answered question is one of the form.
BodyQuestionIds(body) == {body.answers[i].question_id : i \in 1..Len(body.answers)}

\* Steps 6 and 8 without step 7: the required questions are not asked for.
SubmitValidateKnownOnly(r) ==
    /\ reqs[r].op = "submit" /\ reqs[r].pc = "validate"
    /\ LET qs == {q \in questions : q.form_id = reqs[r].form_id}
           answered == BodyQuestionIds(reqs[r].body)
       IN reqs' = IF \E id \in answered : id \notin {q.id : q \in qs} THEN Raise(r, 400)
                  ELSE Goto(r, "commit")
    /\ UNCHANGED <<store, now, result, commitLog>>

\* Steps 6 and 7 without step 8: the question ids of the answers are not
\* looked up in the form.
SubmitValidateRequiredOnly(r) ==
    /\ reqs[r].op = "submit" /\ reqs[r].pc = "validate"
    /\ LET qs == {q \in questions : q.form_id = reqs[r].form_id}
           answered == BodyQuestionIds(reqs[r].body)
           missing_required == {q \in qs : q.is_required /\ q.id \notin answered}
       IN reqs' = IF missing_required # {} THEN Raise(r, 400) ELSE Goto(r, "commit")
    /\ UNCHANGED <<store, now, result, commitLog>>

SubmitValidate(r) ==
    /\ reqs[r].op = "submit" /\ reqs[r].pc = "validate"
    /\ LET qs == {q \in questions : q.form_id = reqs[r].form_id}
           answered == BodyQuestionIds(reqs[r].body)
           missing_required == {q \in qs : q.is_required /\ q.id \notin answered}
       IN reqs' =
            IF missing_required # {} THEN Raise(r, 400)
            ELSE IF \E id \in answered : id \notin {q.id : q \in qs} THEN Raise(r, 400)
            ELSE Goto(r, "commit")
    /\ UNCHANGED <<store, now, result, commitLog>>

\* The Answer rows of step 10: one per submitted answer, ids from next on.
NewAnswers(body, response_id, next) ==
    {[id |-> next + i - 1, response_id |-> response_id,
      question_id |-> body.answers[i].question_id,
      answer_value |-> body.answers[i].answer_value] : i \in 1..Len(body.answers)}

\* Steps 9 to 11: insert the response and its answers, commit.  The foreign
\* keys of the new rows need the form and the questions to exist still.  The
\* flushed response and the added answers belong to one transaction of the
\* request's session: other sessions see none of them before db.commit(), and
\* a failing commit leaves none (get_db closes the session).
\* Steps 9 to 11 with the response committed by itself at step 9: a failure
\* of the answers leaves the response behind.
SubmitCommitAfterFlush(r) ==
    /\ reqs[r].op = "submit" /\ reqs[r].pc = "commit"
    /\ LET req == reqs[r]
           id  == nextId.responses
           fk_ok == BodyQuestionIds(req.body) \subseteq {q.id : q \in questions}
       IN /\ HasForm(forms, req.form_id)
          /\ responses' = responses \cup
                {[id |-> id, form_id |-> req.form_id, student_id |-> req.user,
                  submitted_at |-> now, is_anonymous |-> req.body.is_anonymous]}
          /\ answers' = IF fk_ok THEN answers \cup NewAnswers(req.body, id, nextId.answers)
                        ELSE answers
          /\ nextId' = [nextId EXCEPT !.responses = @ + 1,
                                      !.answers = @ + Len(req.body.answers)]
          /\ commitLog' = Append(commitLog,
                [response_id |-> id,
                 status |-> FormRow(forms, req.form_id).status,
                 accepting |-> AcceptsResponses(FormRow(forms, req.form_id), now)])
          /\ reqs' = Raise(r, IF fk_ok THEN 201 ELSE 500)
    /\ UNCHANGED <<forms, questions, now, result>>

SubmitCommit(r) ==
    /\ reqs[r].op = "submit" /\ reqs[r].pc = "commit"
    /\ LET req == reqs[r]
           id  == nextId.responses
           fk_ok == /\ HasForm(forms, req.form_id)
                    /\ BodyQuestionIds(req.body) \subseteq {q.id : q \in questions}
       IN IF fk_ok
          THEN /\ responses' = responses \cup
                    {[id |-> id, form_id |-> req.form_id, student_id |-> req.user,
                      submitted_at |-> now, is_anonymous |-> req.body.is_anonymous]}
               /\ answers' = answers \cup NewAnswers(req.body, id, nextId.answers)
               /\ nextId' = [nextId EXCEPT !.responses = @ + 1,
                                           !.answers = @ + Len(req.body.answers)]
               /\ commitLog' = Append(commitLog,
                    [response_id |-> id,
                     status |-> FormRow(forms, req.form_id).status,
                     accepting |-> AcceptsResponses(FormRow(forms, req.form_id), now)])
               /\ reqs' = Raise(r, 201)
          ELSE /\ reqs' = Raise(r, 500)
               /\ UNCHANGED <<responses, answers, nextId, commitLog>>
    /\ UNCHANGED <<forms, questions, now, result>>

\* update_form_status by a user who may (same organization; an instructor
\* only on a form of their own): the status is set to whatever is asked.
FormStatuses == {"draft", "published", "closed"}
StatusActors == {1, 5}

MayManageForm(u, form) ==
    /\ form.org_id = u.org_id
    /\ ~(u.role = "instructor" /\ form.instructor_id # u.id)

UpdateFormStatus ==
    /\ \E u \in StatusActors, f \in forms, new_status \in FormStatuses :
        /\ User(u).role \in {"instructor", "admin"}
        /\ MayManageForm(User(u), f)
        /\ f.status # new_status
        /\ forms' = (forms \ {f}) \cup {[f EXCEPT !.status = new_status]}
    /\ UNCHANGED <<questions, responses, answers, nextId, now, reqs, result, commitLog>>

\* A draft form as create_form makes it, opening or closing at the given
\* times.
DraftForm(id, open_date, close_date) ==
    [id |-> id, org_id |-> 1, instructor_id |-> 1, status |-> "draft",
     open_date |-> open_date, close_date |-> close_date]

\* The open and close dates tried: none, opening at 2, closing at 2.
DateChoices == {<<{}, {}>>, <<{2}, {}>>, <<{}, {2}>>}

SubmitInit ==
    /\ \E dc \in DateChoices : forms = {DraftForm(1, dc[1], dc[2])}
    /\ questions =
        {[id |-> 1, form_id |-> 1, question_type |-> "rating", is_required |-> TRUE, order |-> 1],
         [id |-> 2, form_id |-> 1, question_type |-> "mcq", is_required |-> FALSE, order |-> 2]}
    /\ responses = {}
    /\ answers = {}
    /\ nextId = [forms |-> 2, questions |-> 3, responses |-> 1, answers |-> 1]
    /\ now = 1
    /\ reqs = [r \in ReqIds |-> IdleRequest]
    /\ result = NoResult
    /\ commitLog = <<>>

SubmitNext ==
    \/ Tick
    \/ UpdateFormStatus
    \/ \E r \in ReqIds :
        SubmitFindForm(r) \/ SubmitCheckExisting(r) \/ SubmitValidate(r) \/ SubmitCommit(r)

SpecSubmit == SubmitInit /\ [][SubmitNext]_vars

\* C4: after any interleaving of submit_feedback_response requests, the
\* store holds at most one Response row per (form_id, student_id) pair.
C4_OneResponsePerStudent ==
    \A x, y \in responses :
        (x.form_id = y.form_id /\ x.student_id = y.student_id) => x.id = y.id

\* C8: a form accepts responses only while published: every Response row
\* was committed while its form was published and the time was within the
\* open and close dates, and a submission that finds the form draft or
\* closed is rejected with 400.
C8_ResponsesOnlyWhilePublished ==
    /\ \A i \in 1..Len(commitLog) :
        commitLog[i].status = "published" /\ commitLog[i].accepting
    /\ \A r \in ReqIds :
        (/\ reqs[r].op = "submit" /\ reqs[r].pc = "done"
         /\ reqs[r].status \notin {404, 403}
         /\ reqs[r].loc.seen_status # "published")
        => reqs[r].status = 400

---------------------------------------------------------------------------
(* The question handlers of a form: add_question_to_form, delete_question  *)
(* and reorder_questions, each one action per query/commit.                *)

QuestionActors == {1, 6}

\* The permission check of the three question handlers: an admin passes the
\* organization check; an instructor only manages forms of their own.
MayManageQuestions(u, form) ==
    /\ u.role = "admin" \/ form.org_id = u.org_id
    /\ ~(u.role = "instructor" /\ form.instructor_id # u.id)

\* The bodies tried (QuestionCreate): options is None when empty.
QuestionBodies ==
    {[question_type |-> "rating", is_required |-> TRUE, options |-> {}],
     [question_type |-> "mcq", is_required |-> FALSE, options |-> {"a", "b"}],
     [question_type |-> "mcq", is_required |-> FALSE, options |-> {}]}
QuestionFormIds == {1, 9}

\* add_question_to_form up to the count: find the form, check the
\* permissions, count the questions of the form, validate the options.
AddCountQuestions(r) ==
    /\ reqs[r].pc = "idle"
    /\ \E u \in QuestionActors, form_id \in QuestionFormIds, body \in QuestionBodies :
        LET started == [reqs EXCEPT ![r] =
                [IdleRequest EXCEPT !.op = "add", !.user = u, !.form_id = form_id,
                                    !.body = body]]
            max_order == Cardinality({q \in questions : q.form_id = form_id})
        IN reqs' =
            IF ~HasForm(forms, form_id)
            THEN [started EXCEPT ![r].pc = "done", ![r].status = 404]
            ELSE IF ~MayManageQuestions(User(u), FormRow(forms, form_id))
            THEN [started EXCEPT ![r].pc = "done", ![r].status = 403]
            ELSE IF body.question_type = "mcq" /\ body.options = {}
            THEN [started EXCEPT ![r].pc = "done", ![r].status = 400]
            ELSE [started EXCEPT ![r].pc = "commit",
                                 ![r].loc = [next_order |-> max_order + 1]]
    /\ UNCHANGED <<store, now, result, commitLog>>

\* add_question_to_form: insert the question at next_order and commit.  The
\* foreign key of the row needs the form to exist still.
AddCommit(r) ==
    /\ reqs[r].op = "add" /\ reqs[r].pc = "commit"
    /\ LET req == reqs[r]
       IN IF HasForm(forms, req.form_id)
          THEN /\ questions' = questions \cup
                    {[id |-> nextId.questions, form_id |-> req.form_id,
                      question_type |-> req.body.question_type,
                      is_required |-> req.body.is_required,
                      order |-> req.loc.next_order,
                      options |-> req.body.options]}
               /\ nextId' = [nextId EXCEPT !.questions = @ + 1]
               /\ reqs' = Raise(r, 201)
          ELSE /\ reqs' = Raise(r, 500)
               /\ UNCHANGED <<questions, nextId>>
    /\ UNCHANGED <<forms, responses, answers, now, result, commitLog>>

QuestionIds == {1, 2, 4, 9}

\* delete_question up to the permission check: find the question and its
\* form.  deleted_order and form_id are the values read here.
DeleteFindQuestion(r) ==
    /\ reqs[r].pc = "idle"
    /\ \E u \in QuestionActors, question_id \in QuestionIds :
        LET started == [reqs EXCEPT ![r] =
                [IdleRequest EXCEPT !.op = "delete", !.user = u,
                                    !.question_id = question_id]]
            found == {q \in questions : q.id = question_id}
        IN reqs' =
            IF found = {}
            THEN [started EXCEPT ![r].pc = "done", ![r].status = 404]
            ELSE LET question == CHOOSE q \in found : TRUE
                 IN IF ~HasForm(forms, question.form_id)
                    THEN [started EXCEPT ![r].pc = "done", ![r].status = 404]
                    ELSE IF ~MayManageQuestions(User(u), FormRow(forms, question.form_id))
                    THEN [started EXCEPT ![r].pc = "done", ![r].status = 403]
                    ELSE [started EXCEPT ![r].pc = "delete",
                                         ![r].form_id = question.form_id,
                                         ![r].loc = [deleted_order |-> question.order]]
    /\ UNCHANGED <<store, now, result, commitLog>>

\* delete_question: db.delete(question) and the first commit.  The answers
\* of the question go with it (answers.question_id is ON DELETE CASCADE).
DeleteQuestionCommit(r) ==
    /\ reqs[r].op = "delete" /\ reqs[r].pc = "delete"
    /\ questions' = {q \in questions : q.id # reqs[r].question_id}
    /\ answers' = {a \in answers : a.question_id # reqs[r].question_id}
    /\ reqs' = Goto(r, "remaining")
    /\ UNCHANGED <<forms, responses, nextId, now, result, commitLog>>

\* delete_question: load the questions of the form after the deleted one.
DeleteLoadRemaining(r) ==
    /\ reqs[r].op = "delete" /\ reqs[r].pc = "remaining"
    /\ reqs' = [reqs EXCEPT
            ![r].pc = "renumber",
            ![r].loc = [deleted_order |-> reqs[r].loc.deleted_order,
                        remaining_questions |->
                            {q \in questions : /\ q.form_id = reqs[r].form_id
                                               /\ q.order > reqs[r].loc.deleted_order}]]
    /\ UNCHANGED <<store, now, result, commitLog>>

\* delete_question: q.order -= 1 on the loaded rows and the second commit.
\* The UPDATE of a row that is gone by now fails the flush (500) and the
\* transaction is rolled back.
DeleteRenumber(r) ==
    /\ reqs[r].op = "delete" /\ reqs[r].pc = "renumber"
    /\ LET remaining_questions == reqs[r].loc.remaining_questions
           loaded(id) == CHOOSE q \in remaining_questions : q.id = id
           ids == {q.id : q \in remaining_questions}
       IN IF ids \subseteq {q.id : q \in questions}
          THEN /\ questions' =
                    {IF q.id \in ids THEN [q EXCEPT !.order = loaded(q.id).order - 1] ELSE q
                        : q \in questions}
               /\ reqs' = Raise(r, 204)
          ELSE /\ reqs' = Raise(r, 500)
               /\ UNCHANGED questions
    /\ UNCHANGED <<forms, responses, answers, nextId, now, result, commitLog>>

\* The bodies tried (QuestionReorder): a swap of questions 1 and 2, a move
\* of question 1 alone, two questions at one position, questions of two
\* forms, a question that does not exist, no question.
ReorderBodies ==
    {<<[id |-> 1, order |-> 2], [id |-> 2, order |-> 1]>>,
     <<[id |-> 1, order |-> 5]>>,
     <<[id |-> 1, order |-> 1], [id |-> 2, order |-> 1]>>,
     <<[id |-> 1, order |-> 1], [id |-> 4, order |-> 1]>>,
     <<[id |-> 9, order |-> 1]>>,
     <<>>}

\* reorder_questions up to the permission check: load the questions named
\* in the body, find their form.
ReorderLoadQuestions(r) ==
    /\ reqs[r].pc = "idle"
    /\ \E u \in QuestionActors, body \in ReorderBodies :
        LET started == [reqs EXCEPT ![r] =
                [IdleRequest EXCEPT !.op = "reorder", !.user = u, !.body = body]]
            question_ids == [i \in 1..Len(body) |-> body[i].id]
            loaded == {q \in questions : q.id \in Range(question_ids)}
            form_ids == {q.form_id : q \in loaded}
        IN reqs' =
            IF Len(body) = 0
            THEN [started EXCEPT ![r].pc = "done", ![r].status = 400]
            ELSE IF Cardinality(loaded) # Len(question_ids)
            THEN [started EXCEPT ![r].pc = "done", ![r].status = 404]
            ELSE IF Cardinality(form_ids) # 1
            THEN [started EXCEPT ![r].pc = "done", ![r].status = 400]
            ELSE LET form_id == CHOOSE f \in form_ids : TRUE
                 IN IF ~HasForm(forms, form_id)
                    THEN [started EXCEPT ![r].pc = "done", ![r].status = 404]
                    ELSE IF ~MayManageQuestions(User(u), FormRow(forms, form_id))
                    THEN [started EXCEPT ![r].pc = "done", ![r].status = 403]
                    ELSE [started EXCEPT ![r].pc = "commit", ![r].form_id = form_id]
    /\ UNCHANGED <<store, now, result, commitLog>>

\* reorder_questions: question.order = order_map[question.id] on the loaded
\* rows and the commit.  The UPDATE of a row that is gone by now fails the
\* flush (500).
ReorderCommit(r) ==
    /\ reqs[r].op = "reorder" /\ reqs[r].pc = "commit"
    /\ LET body == reqs[r].body
           ids == {body[i].id : i \in 1..Len(body)}
           order_map(id) == body[CHOOSE i \in 1..Len(body) : body[i].id = id].order
       IN IF ids \subseteq {q.id : q \in questions}
          THEN /\ questions' =
                    {IF q.id \in ids THEN [q EXCEPT !.order = order_map(q.id)] ELSE q
                        : q \in questions}
               /\ reqs' = Raise(r, 200)
          ELSE /\ reqs' = Raise(r, 500)
               /\ UNCHANGED questions
    /\ UNCHANGED <<forms, responses, answers, nextId, now, result, commitLog>>

\* Form 1 with three questions in positions 1, 2, 3 (question 1 has one
\* answer), form 2 of the same owner with one question.
QuestionsInit ==
    /\ forms = {PublishedForm(1), DraftForm(2, {}, {})}
    /\ questions =
        {[id |-> 1, form_id |-> 1, question_type |-> "rating", is_required |-> TRUE, order |-> 1],
         [id |-> 2, form_id |-> 1, question_type |-> "mcq", is_required |-> FALSE, order |-> 2],
         [id |-> 3, form_id |-> 1, question_type |-> "rating", is_required |-> FALSE, order |-> 3],
         [id |-> 4, form_id |-> 2, question_type |-> "rating", is_required |-> TRUE, order |-> 1]}
    /\ responses = {[id |-> 1, form_id |-> 1, student_id |-> 2, submitted_at |-> 1,
                     is_anonymous |-> FALSE]}
    /\ answers = {[id |-> 1, response_id |-> 1, question_id |-> 1, answer_value |-> <<"5">>]}
    /\ nextId = [forms |-> 3, questions |-> 5, responses |-> 2, answers |-> 2]
    /\ now = 1
    /\ reqs = [r \in ReqIds |-> IdleRequest]
    /\ result = NoResult
    /\ commitLog = <<>>

QuestionsNext ==
    \E r \in ReqIds :
        \/ AddCountQuestions(r)
        \/ AddCommit(r)
        \/ DeleteFindQuestion(r)
        \/ DeleteQuestionCommit(r)
        \/ DeleteLoadRemaining(r)
        \/ DeleteRenumber(r)
        \/ ReorderLoadQuestions(r)
        \/ ReorderCommit(r)

SpecQuestions == QuestionsInit /\ [][QuestionsNext]_vars

\* C7: once the add_question_to_form, delete_question and reorder_questions
\* requests have ended, the order values of each form's questions are
\* pairwise distinct and are exactly 1..n, n the number of its questions.
C7_OrdersAreOneToN ==
    (\A r \in ReqIds : reqs[r].pc \in {"idle", "done"})
    => \A f \in forms :
        LET qs == {q \in questions : q.form_id = f.id}
        IN /\ {q.order : q \in qs} = 1..Cardinality(qs)
           /\ \A q1, q2 \in qs : q1.order = q2.order => q1.id = q2.id
---------------------------------------------------------------------------
(* The analytics endpoints (routes/analytics.py) as requests: the route's  *)
(* own checks are one step, each engine call is one step.  They run next   *)
(* to delete_form and delete_question.                                     *)

AnalyticsOps == {"summary", "question", "trends", "sentiment", "export"}

\* The calls tried: each endpoint by the owner of form 1; a foreign
\* instructor; an admin of another organization; a form and a question that
\* do not exist.
AnalyticsCalls ==
    {[op |-> "summary",   user |-> 1, form_id |-> 1, question_id |-> 0, period |-> ""],
     [op |-> "question",  user |-> 1, form_id |-> 1, question_id |-> 1, period |-> ""],
     [op |-> "trends",    user |-> 1, form_id |-> 1, question_id |-> 0, period |-> "daily"],
     [op |-> "sentiment", user |-> 1, form_id |-> 1, question_id |-> 0, period |-> ""],
     [op |-> "export",    user |-> 1, form_id |-> 1, question_id |-> 0, period |-> ""],
     [op |-> "summary",   user |-> 6, form_id |-> 1, question_id |-> 0, period |-> ""],
     [op |-> "summary",   user |-> 7, form_id |-> 1, question_id |-> 0, period |-> ""],
     [op |-> "export",    user |-> 7, form_id |-> 1, question_id |-> 0, period |-> ""],
     [op |-> "trends",    user |-> 1, form_id |-> 9, question_id |-> 0, period |-> "weekly"],
     [op |-> "question",  user |-> 1, form_id |-> 1, question_id |-> 9, period |-> ""]}

\* The session of an analytics request: rows come back in insertion order.
SessionDb ==
    Db([i \in 1..(nextId.questions + nextId.responses + nextId.answers) |-> i])

\* The engine raised ValueError because the form or question is not there.
LookupMissed(out) == out.status = "ValueError" /\ out.detail = "not found"

\* The outcome of `try: engine(...)` in the summary, question, trends and
\* sentiment routes: summary has `except Exception` only (500); the others
\* map ValueError to 404.
EngineStatus(op, out) ==
    IF out.status # "ValueError" THEN 200
    ELSE IF op = "summary" THEN 500
    ELSE 404

\* The route's own checks: the form exists, the caller is an admin or the
\* form's instructor, and (question endpoint) the question is in the form.
AnalyticsFindForm(r) ==
    /\ reqs[r].pc = "idle"
    /\ \E call \in AnalyticsCalls :
        LET started == [reqs EXCEPT ![r] =
                [IdleRequest EXCEPT !.op = call.op, !.user = call.user,
                                    !.form_id = call.form_id,
                                    !.question_id = call.question_id,
                                    !.loc = [lookup_missed |-> FALSE, period |-> call.period,
                                             questions |-> <<>>]]]
        IN reqs' =
            IF ~HasForm(forms, call.form_id)
            THEN [started EXCEPT ![r].pc = "done", ![r].status = 404]
            ELSE IF /\ User(call.user).role # "admin"
                    /\ FormRow(forms, call.form_id).instructor_id # call.user
            THEN [started EXCEPT ![r].pc = "done", ![r].status = 403]
            ELSE IF /\ call.op = "question"
                    /\ ~\E q \in questions :
                            q.id = call.question_id /\ q.form_id = call.form_id
            THEN [started EXCEPT ![r].pc = "done", ![r].status = 404]
            ELSE [started EXCEPT ![r].pc = IF call.op = "export" THEN "summary" ELSE "engine"]
    /\ UNCHANGED <<store, now, result, commitLog>>

\* The engine of a summary, question, trends or sentiment request.
EngineOutput(req) ==
    CASE req.op = "summary"   -> calculate_summary_statistics(req.form_id, SessionDb)
      [] req.op = "question"  -> calculate_question_analytics(req.question_id, SessionDb)
      [] req.op = "trends"    -> calculate_trends(req.form_id, req.loc.period, SessionDb)
      [] req.op = "sentiment" -> analyze_sentiment(req.form_id, SessionDb)

\* The request ends with the engine's outcome.
EngineEnds(r, op, out) ==
    reqs' = [reqs EXCEPT ![r].pc = "done", ![r].status = EngineStatus(op, out),
                         ![r].loc.lookup_missed = LookupMissed(out)]

\* An engine step that writes back: the rating answers that do not parse are
\* stored as "0".  The engines do no such thing.
RunEngineCleaningAnswers(r) ==
    /\ reqs[r].op \in AnalyticsOps \ {"export"} /\ reqs[r].pc = "engine"
    /\ EngineEnds(r, reqs[r].op, EngineOutput(reqs[r]))
    /\ answers' = {IF IntParses(a.answer_value) THEN a ELSE [a EXCEPT !.answer_value = <<"0">>]
                      : a \in answers}
    /\ UNCHANGED <<forms, questions, responses, nextId, now, result, commitLog>>

\* summary, question, trends, sentiment: the engine call and the response.
AnalyticsRunEngine(r) ==
    /\ reqs[r].op \in AnalyticsOps \ {"export"} /\ reqs[r].pc = "engine"
    /\ EngineEnds(r, reqs[r].op, EngineOutput(reqs[r]))
    /\ UNCHANGED <<store, now, result, commitLog>>

\* export_analytics_report wraps all its engine calls in `except Exception`:
\* whatever an engine raises ends the request with 500.
ExportFails(r, out) ==
    [reqs EXCEPT ![r].pc = "done", ![r].status = 500,
                 ![r].loc.lookup_missed = LookupMissed(out)]

\* export: calculate_summary_statistics.
ExportSummary(r) ==
    /\ reqs[r].op = "export" /\ reqs[r].pc = "summary"
    /\ LET out == calculate_summary_statistics(reqs[r].form_id, SessionDb)
       IN reqs' = IF out.status = "ValueError" THEN ExportFails(r, out)
                  ELSE Goto(r, "questions")
    /\ UNCHANGED <<store, now, result, commitLog>>

\* export: load the questions of the form.
ExportLoadQuestions(r) ==
    /\ reqs[r].op = "export" /\ reqs[r].pc = "questions"
    /\ LET rows == All({q \in questions : q.form_id = reqs[r].form_id}, SessionDb)
       IN reqs' = [reqs EXCEPT
                ![r].pc = IF rows = <<>> THEN "trends" ELSE "question_analytics",
                ![r].loc.questions = [i \in 1..Len(rows) |-> rows[i].id]]
    /\ UNCHANGED <<store, now, result, commitLog>>

\* export: calculate_question_analytics of the next loaded question.
ExportQuestionAnalytics(r) ==
    /\ reqs[r].op = "export" /\ reqs[r].pc = "question_analytics"
    /\ LET loaded == reqs[r].loc.questions
           out == calculate_question_analytics(Head(loaded), SessionDb)
       IN reqs' = IF out.status = "ValueError" THEN ExportFails(r, out)
                  ELSE [reqs EXCEPT
                        ![r].pc = IF Tail(loaded) = <<>> THEN "trends" ELSE "question_analytics",
                        ![r].loc.questions = Tail(loaded)]
    /\ UNCHANGED <<store, now, result, commitLog>>

\* export: calculate_trends(form_id, "daily").
ExportTrends(r) ==
    /\ reqs[r].op = "export" /\ reqs[r].pc = "trends"
    /\ LET out == calculate_trends(reqs[r].form_id, "daily", SessionDb)
       IN reqs' = IF out.status = "ValueError" THEN ExportFails(r, out)
                  ELSE Goto(r, "sentiment")
    /\ UNCHANGED <<store, now, result, commitLog>>

\* export: analyze_sentiment, then the metadata.  ReportMetadata reads
\* current_user.full_name, which a User does not have (models/user.py): the
\* AttributeError is caught by `except Exception` and the request ends 500.
ExportSentiment(r) ==
    /\ reqs[r].op = "export" /\ reqs[r].pc = "sentiment"
    /\ reqs' = ExportFails(r, analyze_sentiment(reqs[r].form_id, SessionDb))
    /\ UNCHANGED <<store, now, result, commitLog>>

\* delete_form by a user who may: the form goes, and with it (ON DELETE
\* CASCADE) its questions, its responses and their answers.
DeleteForm ==
    /\ \E u \in StatusActors, f \in forms :
        /\ MayManageForm(User(u), f)
        /\ forms' = forms \ {f}
        /\ questions' = {q \in questions : q.form_id # f.id}
        /\ responses' = {x \in responses : x.form_id # f.id}
        /\ answers' = {a \in answers :
                          /\ \E x \in responses : x.id = a.response_id /\ x.form_id # f.id
                          /\ \E q \in questions : q.id = a.question_id /\ q.form_id # f.id}
    /\ UNCHANGED <<nextId, now, reqs, result, commitLog>>

\* Form 1 with a rating and an mcq question and two responses.
AnalyticsInit ==
    /\ forms = {PublishedForm(1)}
    /\ questions =
        {[id |-> 1, form_id |-> 1, question_type |-> "rating", is_required |-> TRUE, order |-> 1],
         [id |-> 2, form_id |-> 1, question_type |-> "mcq", is_required |-> FALSE, order |-> 2]}
    /\ responses =
        {[id |-> 1, form_id |-> 1, student_id |-> 2, submitted_at |-> 1, is_anonymous |-> FALSE],
         [id |-> 2, form_id |-> 1, student_id |-> 3, submitted_at |-> 3, is_anonymous |-> TRUE]}
    /\ answers =
        {[id |-> 1, response_id |-> 1, question_id |-> 1, answer_value |-> <<"5">>],
         [id |-> 2, response_id |-> 1, question_id |-> 2, answer_value |-> <<"3">>],
         [id |-> 3, response_id |-> 2, question_id |-> 1, answer_value |-> <<"x">>]}
    /\ nextId = [forms |-> 2, questions |-> 3, responses |-> 3, answers |-> 4]
    /\ now = 3
    /\ reqs = [r \in ReqIds |-> IdleRequest]
    /\ result = NoResult
    /\ commitLog = <<>>

AnalyticsNext ==
    \/ DeleteForm
    \/ \E r \in ReqIds :
        \/ AnalyticsFindForm(r)
        \/ AnalyticsRunEngine(r)
        \/ ExportSummary(r)
        \/ ExportLoadQuestions(r)
        \/ ExportQuestionAnalytics(r)
        \/ ExportTrends(r)
        \/ ExportSentiment(r)
        \/ DeleteFindQuestion(r)
        \/ DeleteQuestionCommit(r)
        \/ DeleteLoadRemaining(r)
        \/ DeleteRenumber(r)

SpecAnalytics == AnalyticsInit /\ [][AnalyticsNext]_vars

\* C5: an analytics request whose engine looked up a form or question that
\* is not there (deleted after the route's own check, say) ends with 404
\* and never with 500, on each of the five endpoints.
C5_MissingIsNotFound ==
    \A r \in ReqIds :
        (/\ reqs[r].op \in AnalyticsOps
         /\ reqs[r].pc = "done"
         /\ reqs[r].loc.lookup_missed)
        => reqs[r].status = 404

\* C9: no step of an analytics request (summary, question, trends,
\* sentiment, export), whether it succeeds or fails, creates, modifies or
\* deletes a Form, Question, Response or Answer row.
C9_AnalyticsLeaveStoreUnchanged ==
    [][\A r \in ReqIds :
        (reqs'[r] # reqs[r] /\ reqs'[r].op \in AnalyticsOps)
        => UNCHANGED <<forms, questions, responses, answers>>]_vars

\* An analytics request has succeeded and another has failed after its
\* engines ran, on a store that holds rows.
C9_Witness ==
    /\ forms # {} /\ questions # {} /\ responses # {} /\ answers # {}
    /\ \E r1, r2 \in ReqIds :
        /\ reqs[r1].op \in AnalyticsOps /\ reqs[r1].pc = "done" /\ reqs[r1].status = 200
        /\ reqs[r2].op = "export" /\ reqs[r2].pc = "done" /\ reqs[r2].status = 500
---------------------------------------------------------------------------
(* SpecCompletion: the summary engine on a form with three questions whose *)
(* responses answer some of them.  Questions are added, deleted (with      *)
(* their answers) and made required after responses came in, so a response *)
(* may have any subset of the form's questions answered.                   *)

\* is_required of questions 1, 2, 3.
RequiredChoices ==
    {<<TRUE, FALSE, FALSE>>, <<TRUE, TRUE, FALSE>>, <<FALSE, FALSE, FALSE>>,
     <<TRUE, TRUE, TRUE>>}

\* The questions one response has answered.
AnsweredSeq == << {}, {1}, {2}, {1, 2}, {2, 3}, {1, 2, 3} >>

CompletionInit ==
    /\ forms = {PublishedForm(1)}
    /\ \E req \in RequiredChoices :
        questions =
            {[id |-> 1, form_id |-> 1, question_type |-> "rating", is_required |-> req[1], order |-> 1],
             [id |-> 2, form_id |-> 1, question_type |-> "mcq", is_required |-> req[2], order |-> 2],
             [id |-> 3, form_id |-> 1, question_type |-> "rating", is_required |-> req[3], order |-> 3]}
    /\ \E n \in 0..MaxResponses : \E p \in [1..n -> 1..Len(AnsweredSeq)] :
        /\ \A i \in 1..(n - 1) : p[i] <= p[i + 1]
        /\ responses = {[id |-> i, form_id |-> 1, student_id |-> i + 1,
                         submitted_at |-> 1, is_anonymous |-> FALSE] : i \in 1..n}
        /\ answers = {[id |-> 3 * (i - 1) + q, response_id |-> i, question_id |-> q,
                       answer_value |-> <<"5">>] : i \in 1..n, q \in 1..3}
                     \ {a \in [id : 1..(3 * n), response_id : 1..n, question_id : 1..3,
                               answer_value : {<<"5">>}] :
                            a.question_id \notin AnsweredSeq[p[a.response_id]]}
        /\ nextId = [forms |-> 2, questions |-> 4, responses |-> n + 1, answers |-> 3 * n + 1]
    /\ now = 1
    /\ reqs = NoRequests
    /\ result = NoResult
    /\ commitLog = <<>>

\* calculate_summary_statistics on the form, or on a form that is not there.
CallSummaryOfForm ==
    /\ \E id \in CallIds :
        result' = [engine |-> "summary", id |-> id, period |-> "",
                   rowOrder |-> SessionDb.rowOrder,
                   out |-> calculate_summary_statistics(id, SessionDb)]
    /\ UNCHANGED <<store, now, reqs, commitLog>>

CompletionNext == CallSummaryOfForm

SpecCompletion == CompletionInit /\ [][CompletionNext]_vars

\* The responses of form id whose number of answers is at least the number
\* of required questions of the form.
CountComplete(id) ==
    Cardinality({x \in responses :
        /\ x.form_id = id
        /\ Cardinality({a \in answers : a.response_id = x.id})
            >= Cardinality({q \in questions : q.form_id = id /\ q.is_required})})

\* p, in hundredths, is num / den * 100 rounded to two decimals.
IsPercentOf(p, num, den) ==
    /\ 2 * (p * den - num * 10000) <= den
    /\ 2 * (num * 10000 - p * den) <= den

---------------------------------------------------------------------------
(* SpecByType: calculate_question_analytics on one mcq, yes_no or text     *)
(* question with its declared options and the answers of up to             *)
(* MaxResponses (mcq, yes_no) or MaxTextAnswers (text) responses, stored   *)
(* in any order of their values.  AnswerCreate accepts any non-empty       *)
(* string for any question type.                                           *)

MaxTextAnswers == 6

TypedQuestionTypes == {"mcq", "yes_no", "text"}

\* The options the mcq question declares (Question.options, a JSON list;
\* empty here for the other types).
DeclaredOptions(t) == IF t = "mcq" THEN {<<"a">>, <<"b">>} ELSE {}

\* mcq answers: the two declared options and a string that is none of them.
McqValues == {<<"a">>, <<"b">>, <<"z">>}

\* yes_no answers: "yes", "YeS", "no", " yes" and " ".
YesNoValues ==
    {<<"y", "e", "s">>, <<"Y", "e", "S">>, <<"n", "o">>, <<" ", "y", "e", "s">>, <<" ">>}

\* text answers: "Good good5 this caf<e acute>s nice, very-nice bad" and a
\* text of TopWords + 1 different words "wora worb worc ...".
TextMixed ==
    << "G", "o", "o", "d", " ", "g", "o", "o", "d", "5", " ", "t", "h", "i", "s", " ",
       "c", "a", "f", "EACUTE", "s" >>
TextNice ==
    << "n", "i", "c", "e", ",", " ", "v", "e", "r", "y", "-", "n", "i", "c", "e", " ",
       "b", "a", "d" >>
RECURSIVE ManyWords(_)
ManyWords(n) ==
    IF n = 0 THEN <<>>
    ELSE IF n = 1 THEN << "w", "o", "r", LowerAlphabet[1] >>
    ELSE ManyWords(n - 1) \o << " ", "w", "o", "r", LowerAlphabet[n] >>
TextValues == {TextMixed \o << " " >> \o TextNice, ManyWords(TopWords + 1)}

TypedValues(t) ==
    CASE t = "mcq" -> McqValues
      [] t = "yes_no" -> YesNoValues
      [] t = "text" -> TextValues
TypedCount(t) == IF t = "text" THEN MaxTextAnswers ELSE MaxResponses

\* The orders a query may return the answer rows in: by id, by descending id.
TypedRowOrders ==
    {[i \in 1..MaxTextAnswers |-> i], [i \in 1..MaxTextAnswers |-> MaxTextAnswers + 1 - i]}

ByTypeInit ==
    /\ forms = {PublishedForm(1)}
    /\ \E t \in TypedQuestionTypes :
        /\ questions = {[id |-> 1, form_id |-> 1, question_type |-> t,
                         is_required |-> TRUE, order |-> 1,
                         options |-> DeclaredOptions(t)]}
        /\ \E n \in 0..TypedCount(t) : \E v \in [1..n -> TypedValues(t)] :
            /\ responses = {[id |-> i, form_id |-> 1, student_id |-> i + 1,
                             submitted_at |-> 1, is_anonymous |-> FALSE] : i \in 1..n}
            /\ answers = {[id |-> i, response_id |-> i, question_id |-> 1,
                           answer_value |-> v[i]] : i \in 1..n}
            /\ nextId = [forms |-> 2, questions |-> 2, responses |-> n + 1,
                         answers |-> n + 1]
    /\ now = 1
    /\ reqs = NoRequests
    /\ result = NoResult
    /\ commitLog = <<>>

\* calculate_question_analytics on the question, or on one that is not there.
CallQuestionOfType ==
    /\ \E id \in CallIds, rk \in TypedRowOrders :
        result' = [engine |-> "question", id |-> id, period |-> "", rowOrder |-> rk,
                   out |-> calculate_question_analytics(id, Db(rk))]
    /\ UNCHANGED <<store, now, reqs, commitLog>>

ByTypeNext == CallQuestionOfType

SpecByType == ByTypeInit /\ [][ByTypeNext]_vars

\* The last call was calculate_question_analytics of a question of type t
\* and reported a result.
TypedCall(t) ==
    /\ result.engine = "question"
    /\ result.out.status = "ok"
    /\ result.out.question_type = t
    /\ \E q \in questions : q.id = result.id /\ q.question_type = t

\* The answer rows of the question of the last call in the order the call
\* got them, and their number.
CallRows == RowsBy(AnswersOf(result.id), result.rowOrder)
CallN == Cardinality(AnswersOf(result.id))

\* C18: for an mcq question with N > 0 answers, mcq_distribution has one
\* entry per distinct raw answer string (declared option or not), count is
\* the number of answers with that string, percentage is count / N * 100 to
\* two decimals, the counts do not increase along the list and sum to N, and
\* most_selected_option is the option of the first entry.
C18_McqDistribution ==
    (TypedCall("mcq") /\ CallN > 0)
    => /\ result.out.mcq_distribution # {}
       /\ \A dist \in result.out.mcq_distribution :
            /\ {dist[i].option : i \in 1..Len(dist)}
                = {a.answer_value : a \in AnswersOf(result.id)}
            /\ \A i, j \in 1..Len(dist) : dist[i].option = dist[j].option => i = j
            /\ \A i \in 1..Len(dist) :
                /\ dist[i].count = Cardinality({a \in AnswersOf(result.id) :
                                                    a.answer_value = dist[i].option})
                /\ IsPercentOf(dist[i].percentage, dist[i].count, CallN)
            /\ \A i, j \in 1..Len(dist) : i < j => dist[i].count >= dist[j].count
            /\ SumSeq([i \in 1..Len(dist) |-> dist[i].count]) = CallN
            /\ Len(dist) > 0
            /\ result.out.most_selected_option = {dist[1].option}

\* Three answers, the first stored one a string outside the declared
\* options and the other two one declared option: the distribution leads
\* with the option answered twice, at 66.67 per cent.
C18_Witness ==
    /\ TypedCall("mcq") /\ CallN = 3
    /\ \E q \in questions : q.id = result.id /\ CallRows[1].answer_value \notin q.options
    /\ \E dist \in result.out.mcq_distribution :
        /\ Len(dist) = 2
        /\ dist[1].count = 2 /\ dist[1].percentage = 6667
        /\ dist[1].option # CallRows[1].answer_value
\* v is "yes" in some mix of upper and lower case.
IsYes(v) ==
    /\ Len(v) = 3
    /\ v[1] \in {"y", "Y"} /\ v[2] \in {"e", "E"} /\ v[3] \in {"s", "S"}

\* C19: for a yes_no question with N > 0 answers, yes_count is the number
\* of answers equal to "yes" up to letter case, every other answer is in
\* no_count, the two counts add up to N, and each percentage is its count
\* / N * 100 to two decimals.
C19_YesNoDistribution ==
    (TypedCall("yes_no") /\ CallN > 0)
    => /\ result.out.yes_no_distribution # {}
       /\ \A dist \in result.out.yes_no_distribution :
            /\ dist.yes_count
                = Cardinality({a \in AnswersOf(result.id) : IsYes(a.answer_value)})
            /\ dist.no_count
                = Cardinality({a \in AnswersOf(result.id) : ~IsYes(a.answer_value)})
            /\ dist.yes_count + dist.no_count = CallN
            /\ IsPercentOf(dist.yes_percentage, dist.yes_count, CallN)
            /\ IsPercentOf(dist.no_percentage, dist.no_count, CallN)

\* "YeS", " yes" and " ": one yes and two no, 33.33 and 66.67 per cent.
C19_Witness ==
    /\ TypedCall("yes_no") /\ CallN = 3
    /\ \E a \in AnswersOf(result.id) : a.answer_value = <<"Y", "e", "S">>
    /\ \E a \in AnswersOf(result.id) : a.answer_value = <<" ", "y", "e", "s">>
    /\ \E a \in AnswersOf(result.id) : a.answer_value = <<" ">>
    /\ \E dist \in result.out.yes_no_distribution :
        /\ dist.yes_count = 1 /\ dist.no_count = 2
        /\ dist.yes_percentage = 3333 /\ dist.no_percentage = 6667
\* The words of the answers of the last call, in the order the call met
\* them: the runs of letters a-z of at least four letters in the lower-cased
\* answers, stop words left out.
CallWords == FilteredWords(CallRows)
FirstIndex(W, w) == CHOOSE i \in 1..Len(W) : W[i] = w /\ \A j \in 1..(i - 1) : W[j] # w
Min2(a, b) == IF a < b THEN a ELSE b

\* What C20 says of the two text fields of the last result.
TextFieldsAsClaimed ==
    LET W     == CallWords
        count == [w \in Range(W) |-> CountOf(W, w)]
        first == [w \in Range(W) |-> FirstIndex(W, w)]
        rows  == CallRows
    IN
    /\ result.out.word_frequencies # {}
    /\ \A wf \in result.out.word_frequencies :
        /\ Len(wf) <= 20
        /\ \A i \in 1..Len(wf) :
            /\ Len(wf[i].word) >= 4
            /\ Range(wf[i].word) \subseteq LowerLetters
            /\ wf[i].word \notin StopWords
            /\ wf[i].word \in Range(W)
            /\ wf[i].frequency = count[wf[i].word]
        /\ \A i, j \in 1..Len(wf) : i < j =>
            \/ wf[i].frequency > wf[j].frequency
            \/ /\ wf[i].frequency = wf[j].frequency
               /\ first[wf[i].word] < first[wf[j].word]
        /\ \A w \in Range(W) \ {wf[i].word : i \in 1..Len(wf)} :
            \A i \in 1..Len(wf) : count[w] <= wf[i].frequency
    /\ result.out.sample_responses # {}
    /\ \A sr \in result.out.sample_responses :
        sr = [i \in 1..Min2(5, CallN) |-> rows[i].answer_value]

\* C20 as stated: for a text question, word_frequencies lists at most 20
\* words, each a run of at least 4 letters that is no stop word, by
\* non-increasing frequency and, at equal frequency, in order of first
\* occurrence across the answers, no word left out being more frequent than
\* a listed one; sample_responses is the first min(5, N) answers verbatim
\* in row order.
C20_TextAnalytics == TypedCall("text") => TextFieldsAsClaimed

\* C20 with the case the engine treats apart left out: the same, for a text
\* question with N > 0 answers.  With N = 0 the engine returns before the
\* type-specific part, and both fields are None rather than empty lists.
C20_TextAnalyticsOfAnswers == (TypedCall("text") /\ CallN > 0) => TextFieldsAsClaimed

\* More answers than the samples hold and more words than the list holds,
\* returned in descending id order; the list is full, led by one word ahead
\* of two equally frequent ones, and the samples are cut.
C20_Witness ==
    /\ TypedCall("text") /\ CallN > SampleSize
    /\ Cardinality(Range(CallWords)) > TopWords
    /\ result.rowOrder[1] > result.rowOrder[2]
    /\ \E wf \in result.out.word_frequencies :
        /\ Len(wf) = TopWords
        /\ wf[1].frequency > wf[2].frequency
        /\ wf[2].frequency = wf[3].frequency
    /\ \E sr \in result.out.sample_responses : Len(sr) = SampleSize
---------------------------------------------------------------------------
(* SpecSentiment: analyze_sentiment on a form with a text question and a   *)
(* rating question.  Up to MaxTextAnswers responses answer the text        *)
(* question with one of the texts below; the first response also answers   *)
(* the rating question, with "good".                                       *)

\* "good", "Good, clear good", "excellent great best love bad", "bad",
\* "boring useless goods", "good bad", "ok".
SentimentTexts ==
    << << "g", "o", "o", "d" >>,
       << "G", "o", "o", "d", ",", " ", "c", "l", "e", "a", "r", " ", "g", "o", "o", "d" >>,
       << "e", "x", "c", "e", "l", "l", "e", "n", "t", " ", "g", "r", "e", "a", "t", " ",
          "b", "e", "s", "t", " ", "l", "o", "v", "e", " ", "b", "a", "d" >>,
       << "b", "a", "d" >>,
       << "b", "o", "r", "i", "n", "g", " ", "u", "s", "e", "l", "e", "s", "s", " ",
          "g", "o", "o", "d", "s" >>,
       << "g", "o", "o", "d", " ", "b", "a", "d" >>,
       << "o", "k" >> >>

SentimentInit ==
    /\ forms = {PublishedForm(1)}
    /\ questions = {[id |-> 1, form_id |-> 1, question_type |-> "text",
                     is_required |-> TRUE, order |-> 1],
                    [id |-> 2, form_id |-> 1, question_type |-> "rating",
                     is_required |-> FALSE, order |-> 2]}
    /\ \E n \in 0..MaxTextAnswers : \E p \in [1..n -> 1..Len(SentimentTexts)] :
        /\ \A i \in 1..(n - 1) : p[i] <= p[i + 1]
        /\ responses = {[id |-> i, form_id |-> 1, student_id |-> i + 1,
                         submitted_at |-> 1, is_anonymous |-> FALSE] : i \in 1..n}
        /\ answers = {[id |-> i, response_id |-> i, question_id |-> 1,
                       answer_value |-> SentimentTexts[p[i]]] : i \in 1..n}
                     \cup {[id |-> n + 1, response_id |-> 1, question_id |-> 2,
                            answer_value |-> SentimentTexts[1]] : i \in 1..Min(n, 1)}
        /\ nextId = [forms |-> 2, questions |-> 3, responses |-> n + 1,
                     answers |-> n + 1 + Min(n, 1)]
    /\ now = 1
    /\ reqs = NoRequests
    /\ result = NoResult
    /\ commitLog = <<>>

\* The orders the query may return the answer rows in: by id, by descending
\* id (the rating answer has the id after the text answers').
SentimentRowOrders ==
    {[i \in 1..(MaxTextAnswers + 1) |-> i],
     [i \in 1..(MaxTextAnswers + 1) |-> MaxTextAnswers + 2 - i]}

\* analyze_sentiment on the form, or on a form that is not there: one call
\* on each store (a call changes nothing the next one reads).
CallSentimentOfForm ==
    /\ result = NoResult
    /\ \E id \in CallIds, rk \in SentimentRowOrders :
        result' = [engine |-> "sentiment", id |-> id, period |-> "", rowOrder |-> rk,
                   out |-> analyze_sentiment(id, Db(rk))]
    /\ UNCHANGED <<store, now, reqs, commitLog>>

SentimentNext == CallSentimentOfForm

SpecSentiment == SentimentInit /\ [][SentimentNext]_vars

\* The last call was analyze_sentiment and reported a result.
SentimentCall == result.engine = "sentiment" /\ result.out.status = "ok"

\* The free-text answers of form id.
TextAnswersOf(id) ==
    {a \in answers : \E q \in questions :
        q.id = a.question_id /\ q.form_id = id /\ q.question_type = "text"}

\* Keyword w is one of the words of answer string v: it stands in the
\* lower-cased v between two ends that are not letters, digits or "_".
OccursAsWord(w, v) ==
    LET t == Lower(v)
    IN \E i \in 1..(Len(t) - Len(w) + 1) :
        /\ SubSeq(t, i, i + Len(w) - 1) = w
        /\ i = 1 \/ t[i - 1] \notin WordChars
        /\ i + Len(w) - 1 = Len(t) \/ t[i + Len(w)] \notin WordChars
Hits(v, keywords) == Cardinality({w \in keywords : OccursAsWord(w, v)})

\* Text answer a with the numbers P and Q of distinct positive and negative
\* keywords among its words.
KeywordHits(a) ==
    [answer |-> a, P |-> Hits(a.answer_value, PositiveWords),
     Q |-> Hits(a.answer_value, NegativeWords)]

\* The text answers of the form of the last call, each with its keyword
\* numbers.
CallHits == {KeywordHits(a) : a \in TextAnswersOf(result.id)}

\* The class C21 gives an answer of keyword numbers h, and whether c (in
\* hundredths) is the confidence C21 gives it, to two decimals.
ClaimedClass(h) ==
    IF h.P > h.Q THEN "positive" ELSE IF h.Q > h.P THEN "negative" ELSE "neutral"
IsClaimedConfidence(c, h) ==
    LET hits == IF h.P > h.Q THEN h.P ELSE h.Q
    IN IF h.P = h.Q THEN c = 50
       ELSE IF hits >= 3 THEN c = 100
       ELSE 2 * (c * 3 - hits * 100) <= 3 /\ 2 * (hits * 100 - c * 3) <= 3

\* The text answers, among H, a SentimentScore entry is of.
AnswerOfEntry(e, H) ==
    {h \in H : h.answer.response_id = e.response_id
                /\ h.answer.question_id = e.question_id}

\* C21: analyze_sentiment gives each free-text answer, with P distinct
\* positive and Q distinct negative keywords among its words, the class
\* positive with confidence min(P/3, 1) if P > Q, negative with confidence
\* min(Q/3, 1) if Q > P, and neutral with confidence 0.5 otherwise
\* (confidences to two decimals); the class counts of the summary are the
\* numbers of answers of each class and add up to total_text_responses, and
\* the entries of the two top lists carry their answer's class and
\* confidence.
C21_SentimentClasses ==
    SentimentCall
    => LET H == CallHits
           sum == result.out.summary
           ofClass(c) == Cardinality({h \in H : ClaimedClass(h) = c})
       IN /\ \A h \in H :
                LET score == Score(h.answer)
                IN /\ score.sentiment = ClaimedClass(h)
                   /\ IsClaimedConfidence(RoundedConfidence(score), h)
          /\ sum.positive_count = ofClass("positive")
          /\ sum.negative_count = ofClass("negative")
          /\ sum.neutral_count = ofClass("neutral")
          /\ sum.positive_count + sum.negative_count + sum.neutral_count
                = result.out.total_text_responses
          /\ \A c \in {"positive", "negative"} :
                LET top == IF c = "positive" THEN result.out.top_positive_responses
                           ELSE result.out.top_negative_responses
                IN \A i \in 1..Len(top) :
                    /\ top[i].sentiment = c
                    /\ AnswerOfEntry(top[i], H) # {}
                    /\ \A h \in AnswerOfEntry(top[i], H) :
                        ClaimedClass(h) = c /\ IsClaimedConfidence(top[i].confidence, h)

\* Answers of all three classes: a positive one naming one keyword twice
\* and another (0.67), one with four positive keywords and a negative one
\* (1.0), a negative one, and a neutral one with a keyword of each kind.
C21_Witness ==
    /\ SentimentCall
    /\ result.out.summary.negative_count > 0
    /\ \E h \in CallHits : h.P = 1 /\ h.Q = 1
    /\ \E i, j \in 1..Len(result.out.top_positive_responses) :
        /\ result.out.top_positive_responses[i].confidence = 67
        /\ result.out.top_positive_responses[j].confidence = 100

\* C22: overall_sentiment is "no data" exactly when the form has no
\* free-text answer; otherwise it is "mostly positive" if positive_count >
\* 2 * negative_count, else "mostly negative" if negative_count > 2 *
\* positive_count, else "mixed".
C22_OverallSentiment ==
    SentimentCall
    => LET H   == CallHits
           pos == Cardinality({h \in H : ClaimedClass(h) = "positive"})
           neg == Cardinality({h \in H : ClaimedClass(h) = "negative"})
           overall == result.out.summary.overall_sentiment
       IN /\ overall = "no data" <=> H = {}
          /\ H # {} =>
               overall = IF pos > 2 * neg THEN "mostly positive"
                         ELSE IF neg > 2 * pos THEN "mostly negative"
                         ELSE "mixed"

\* A form whose free-text answers are all neutral is "mixed".
C22_Witness ==
    /\ SentimentCall
    /\ LET H == CallHits
       IN Cardinality(H) >= 2 /\ \A h \in H : ClaimedClass(h) = "neutral"
    /\ result.out.summary.overall_sentiment = "mixed"

\* The number of keywords behind the confidence C21 gives an answer of a
\* class, capped where the confidence is: min(hits, 3).
CappedHits(h) == Min(IF h.P > h.Q THEN h.P ELSE h.Q, 3)

\* What C23 says of one top list and class c, H being the text answers.
TopListAsClaimed(top, c, H) ==
    LET K  == {h \in H : ClaimedClass(h) = c}
        rk == result.rowOrder
        of == [i \in 1..Len(top) |-> CHOOSE h \in AnswerOfEntry(top[i], H) : TRUE]
        listed == {of[i] : i \in 1..Len(top)}
    IN /\ Len(top) = Min(5, Cardinality(K))
       /\ \A i \in 1..Len(top) :
            AnswerOfEntry(top[i], H) # {} /\ AnswerOfEntry(top[i], H) \subseteq K
       /\ Cardinality(listed) = Len(top)
       /\ \A i, j \in 1..Len(top) : i < j =>
            \/ top[i].confidence > top[j].confidence
            \/ /\ top[i].confidence = top[j].confidence
               /\ CappedHits(of[i]) = CappedHits(of[j])
               /\ rk[of[i].answer.id] < rk[of[j].answer.id]
       /\ \A h \in K \ listed : \A g \in listed : CappedHits(h) <= CappedHits(g)

\* C23: top_positive_responses (top_negative_responses) holds min(5, k) of
\* the k answers classified positive (negative), by non-increasing
\* confidence, answers of equal confidence in the order the rows came in,
\* and no answer of the class left out has a higher confidence than a
\* listed one.
C23_TopResponses ==
    SentimentCall
    => LET H == CallHits
       IN /\ TopListAsClaimed(result.out.top_positive_responses, "positive", H)
          /\ TopListAsClaimed(result.out.top_negative_responses, "negative", H)

\* More than five positive answers of several confidences, the rows coming
\* in descending id order: the list is full, falls in confidence, and its
\* two first entries are of equal confidence, the later response first.
C23_Witness ==
    /\ SentimentCall
    /\ result.out.summary.positive_count > TopResponses
    /\ result.rowOrder[1] > result.rowOrder[2]
    /\ LET top == result.out.top_positive_responses
       IN /\ Len(top) = TopResponses
          /\ top[1].confidence = top[2].confidence
          /\ top[1].response_id > top[2].response_id
          /\ top[1].confidence > top[TopResponses].confidence

---------------------------------------------------------------------------
(* SpecStore: submissions and the question handlers add_question_to_form,  *)
(* update_question and delete_question on two published forms.             *)

\* The bodies tried (QuestionUpdate after model_dump(exclude_unset=True)):
\* is_required alone, question_type "mcq" without options, question_type
\* "text".  A field that is not set is the empty set.
UpdateBodies ==
    {[question_type |-> {}, is_required |-> {TRUE}, options |-> {}],
     [question_type |-> {}, is_required |-> {FALSE}, options |-> {}],
     [question_type |-> {"mcq"}, is_required |-> {}, options |-> {}],
     [question_type |-> {"text"}, is_required |-> {}, options |-> {}]}

\* update_question up to the validation: find the question and its form,
\* check the permissions, and ask options of a question that becomes mcq.
UpdateFindQuestion(r) ==
    /\ reqs[r].pc = "idle"
    /\ \E u \in QuestionActors, question_id \in QuestionIds, body \in UpdateBodies :
        LET started == [reqs EXCEPT ![r] =
                [IdleRequest EXCEPT !.op = "update", !.user = u,
                                    !.question_id = question_id, !.body = body]]
            found == {q \in questions : q.id = question_id}
        IN reqs' =
            IF found = {}
            THEN [started EXCEPT ![r].pc = "done", ![r].status = 404]
            ELSE LET question == CHOOSE q \in found : TRUE
                     options  == IF body.options # {} THEN body.options ELSE question.options
                 IN IF ~HasForm(forms, question.form_id)
                    THEN [started EXCEPT ![r].pc = "done", ![r].status = 404]
                    ELSE IF ~MayManageQuestions(User(u), FormRow(forms, question.form_id))
                    THEN [started EXCEPT ![r].pc = "done", ![r].status = 403]
                    ELSE IF body.question_type = {"mcq"} /\ options = {}
                    THEN [started EXCEPT ![r].pc = "done", ![r].status = 400]
                    ELSE [started EXCEPT ![r].pc = "update",
                                         ![r].form_id = question.form_id]
    /\ UNCHANGED <<store, now, result, commitLog>>

\* A question row with the fields of update_data set on it.
UpdatedQuestion(q, body) ==
    [q EXCEPT !.question_type = IF body.question_type = {} THEN @
                                ELSE CHOOSE t \in body.question_type : TRUE,
              !.is_required = IF body.is_required = {} THEN @
                              ELSE CHOOSE b \in body.is_required : TRUE,
              !.options = IF body.options = {} THEN @ ELSE body.options]

\* update_question: setattr of the fields and the commit.  The UPDATE of a
\* row that is gone by now fails the flush (500).
UpdateQuestionCommit(r) ==
    /\ reqs[r].op = "update" /\ reqs[r].pc = "update"
    /\ IF \E q \in questions : q.id = reqs[r].question_id
       THEN /\ questions' =
                {IF q.id = reqs[r].question_id THEN UpdatedQuestion(q, reqs[r].body) ELSE q
                    : q \in questions}
            /\ reqs' = Raise(r, 200)
       ELSE /\ reqs' = Raise(r, 500)
            /\ UNCHANGED questions
    /\ UNCHANGED <<forms, responses, answers, nextId, now, result, commitLog>>

\* Two published forms of one instructor: form 1 with a required rating
\* question and an optional mcq question, form 2 with an optional rating
\* question; no response yet.
StoreInit ==
    /\ forms = {PublishedForm(1), PublishedForm(2)}
    /\ questions =
        {[id |-> 1, form_id |-> 1, question_type |-> "rating", is_required |-> TRUE,
          order |-> 1, options |-> {}],
         [id |-> 2, form_id |-> 1, question_type |-> "mcq", is_required |-> FALSE,
          order |-> 2, options |-> {"a", "b"}],
         [id |-> 3, form_id |-> 2, question_type |-> "rating", is_required |-> FALSE,
          order |-> 1, options |-> {}]}
    /\ responses = {}
    /\ answers = {}
    /\ nextId = [forms |-> 3, questions |-> 4, responses |-> 1, answers |-> 1]
    /\ now = 1
    /\ reqs = [r \in ReqIds |-> IdleRequest]
    /\ result = NoResult
    /\ commitLog = <<>>

StoreNext ==
    \E r \in ReqIds :
        \/ SubmitFindForm(r) \/ SubmitCheckExisting(r) \/ SubmitValidate(r) \/ SubmitCommit(r)
        \/ AddCountQuestions(r) \/ AddCommit(r)
        \/ UpdateFindQuestion(r) \/ UpdateQuestionCommit(r)
        \/ DeleteFindQuestion(r) \/ DeleteQuestionCommit(r)
        \/ DeleteLoadRemaining(r) \/ DeleteRenumber(r)

SpecStore == StoreInit /\ [][StoreNext]_vars

\* C24: whatever questions were added, updated and deleted and whatever
\* responses were submitted, every Answer row belongs to exactly one
\* Response row and names a Question row whose form is that response's.
C24_AnswersOfOwnForm ==
    \A a \in answers :
        /\ Cardinality({x \in responses : x.id = a.response_id}) = 1
        /\ \A x \in responses : x.id = a.response_id =>
              \E q \in questions : q.id = a.question_id /\ q.form_id = x.form_id

\* A response submitted with two answers, of which one went with its
\* question when that was deleted.
C24_Witness ==
    /\ \E x \in responses :
        /\ Cardinality({a \in answers : a.response_id = x.id}) = 1
        /\ \E q \in questions : q.form_id = x.form_id /\ q.is_required
        /\ ~\E q \in questions : q.id = 2
    /\ \E r \in ReqIds : reqs[r].op = "delete" /\ reqs[r].status = 204
\* The status flow update_form_status documents.
StatusFlow ==
    {<<"draft", "published">>, <<"published", "closed">>, <<"closed", "published">>}

\* C25: update_form_status changes the status of a form only from draft to
\* published, from published to closed or from closed to published; any
\* other transition asked for leaves the status as it is.
C25_StatusFlow ==
    [][\A f \in forms : \A g \in forms' :
          (f.id = g.id /\ f.status # g.status) => <<f.status, g.status>> \in StatusFlow]_vars
---------------------------------------------------------------------------
(* responses.py: the three read endpoints of the responses of a form,      *)
(* list_form_responses, get_response_details and export_responses_csv.     *)
(* They only query; each is a function of the caller and of the rows.      *)

\* User.email: one address per user.
UserEmail(u) ==
    CASE u.id = 2 -> "two@org1"
      [] u.id = 3 -> "three@org1"
      [] u.id = 8 -> "eight@org1"
      [] OTHER -> "staff@org"

HttpError(code) == [status |-> code]

\* get_current_instructor and the permission check the three endpoints
\* share: the status the caller is turned away with, or 200.
ResponseAccess(user, formFound) ==
    IF user.role \notin {"instructor", "admin"} THEN 403
    ELSE IF formFound = {} THEN 404
    ELSE LET form == CHOOSE f \in formFound : TRUE
         IN IF form.org_id # user.org_id THEN 403
            ELSE IF user.role = "instructor" /\ form.instructor_id # user.id THEN 403
            ELSE 200

\* The student every endpoint names whatever the is_anonymous flag says.
StudentOfAny(response) == {u \in Users : u.id = response.student_id}

\* The student row the endpoints look up: none for an anonymous response.
StudentOf(response) ==
    IF response.is_anonymous THEN {}
    ELSE {u \in Users : u.id = response.student_id}

\* One ResponseSummary of list_form_responses.
ResponseSummary(response, db) ==
    [id |-> response.id, form_id |-> response.form_id,
     student_id |-> {u.id : u \in StudentOf(response)},
     student_email |-> {UserEmail(u) : u \in StudentOf(response)},
     submitted_at |-> response.submitted_at, is_anonymous |-> response.is_anonymous,
     answer_count |-> Cardinality({a \in db.answers : a.response_id = response.id})]

list_form_responses(form_id, user, db) ==
    LET access == ResponseAccess(user, {f \in db.forms : f.id = form_id})
        rows   == All({x \in db.responses : x.form_id = form_id}, db)
    IN IF access # 200 THEN HttpError(access)
       ELSE [status |-> 200,
             body |-> [i \in 1..Len(rows) |-> ResponseSummary(rows[i], db)]]

get_response_details(response_id, user, db) ==
    LET found == {x \in db.responses : x.id = response_id}
    IN IF user.role \notin {"instructor", "admin"} THEN HttpError(403)
       ELSE IF found = {} THEN HttpError(404)
       ELSE
       LET response == CHOOSE x \in found : TRUE
           access == ResponseAccess(user, {f \in db.forms : f.id = response.form_id})
       IN IF access # 200 THEN HttpError(access)
          ELSE [status |-> 200,
                body |-> [id |-> response.id, form_id |-> response.form_id,
                          student_id |-> {u.id : u \in StudentOf(response)},
                          student_email |-> {UserEmail(u) : u \in StudentOf(response)},
                          submitted_at |-> response.submitted_at,
                          is_anonymous |-> response.is_anonymous,
                          answers |-> All({a \in db.answers : a.response_id = response_id},
                                          db)]]

\* order_by(Question.order): the questions of the form by position (two at
\* one position by id).
RECURSIVE ByOrder(_)
ByOrder(qs) ==
    IF qs = {} THEN <<>>
    ELSE LET q == CHOOSE q \in qs : \A p \in qs :
                    q.order < p.order \/ (q.order = p.order /\ q.id <= p.id)
         IN <<q>> \o ByOrder(qs \ {q})

\* answer_map.get(question.id, ""): the value of the last answer row of the
\* question, the empty string without one.
AnswerCell(answerRows, question_id) ==
    LET of == SelectSeq(answerRows, LAMBDA a : a.question_id = question_id)
    IN IF of = <<>> THEN <<>> ELSE of[Len(of)].answer_value

\* One data row of the CSV: id, email or "Anonymous", time, "Yes"/"No",
\* then one cell per question.
CsvRow(response, qs, db) ==
    LET student == StudentOf(response)
        answerRows == All({a \in db.answers : a.response_id = response.id}, db)
    IN << response.id,
          IF student = {} THEN "Anonymous" ELSE UserEmail(CHOOSE u \in student : TRUE),
          response.submitted_at,
          IF response.is_anonymous THEN "Yes" ELSE "No" >>
       \o [i \in 1..Len(qs) |-> AnswerCell(answerRows, qs[i].id)]

export_responses_csv(form_id, user, db) ==
    LET access == ResponseAccess(user, {f \in db.forms : f.id = form_id})
        qs     == ByOrder({q \in db.questions : q.form_id = form_id})
        rows   == All({x \in db.responses : x.form_id = form_id}, db)
    IN IF access # 200 THEN HttpError(access)
       ELSE IF rows = <<>> THEN HttpError(404)
       ELSE [status |-> 200,
             header |-> <<"Response ID", "Student Email", "Submitted At", "Anonymous">>
                            \o [i \in 1..Len(qs) |-> qs[i].order],
             body |-> [i \in 1..Len(rows) |-> CsvRow(rows[i], qs, db)]]

\* SpecResponses: form 1 of instructor 1 with two questions; each student of
\* the organization has submitted or not, anonymously or not, answering the
\* required question and, when anonymous, the optional one too.
OrgStudents == {2, 3, 8}
SubmissionKinds == {"none", "named", "anonymous"}
ResponseCallers == {1, 2, 5, 6, 7}

ResponsesInit ==
    /\ forms = {PublishedForm(1)}
    /\ questions =
        {[id |-> 1, form_id |-> 1, question_type |-> "rating", is_required |-> TRUE,
          order |-> 1, options |-> {}],
         [id |-> 2, form_id |-> 1, question_type |-> "text", is_required |-> FALSE,
          order |-> 2, options |-> {}]}
    /\ \E kind \in [OrgStudents -> SubmissionKinds] :
        /\ responses = {[id |-> u, form_id |-> 1, student_id |-> u, submitted_at |-> 1,
                         is_anonymous |-> kind[u] = "anonymous"]
                            : u \in {v \in OrgStudents : kind[v] # "none"}}
        /\ answers = {[id |-> 2 * u, response_id |-> u, question_id |-> 1,
                       answer_value |-> <<"5">>]
                            : u \in {v \in OrgStudents : kind[v] # "none"}}
                     \cup {[id |-> 2 * u + 1, response_id |-> u, question_id |-> 2,
                            answer_value |-> <<"o", "k">>]
                            : u \in {v \in OrgStudents : kind[v] = "anonymous"}}
    /\ nextId = [forms |-> 2, questions |-> 3, responses |-> 9, answers |-> 18]
    /\ now = 1
    /\ reqs = NoRequests
    /\ result = NoResult
    /\ commitLog = <<>>

\* The order a query returns rows in: by id, by descending id.
ResponseRowOrders == {[i \in 1..17 |-> i], [i \in 1..17 |-> 18 - i]}

CallListResponses ==
    /\ \E id \in CallIds, u \in ResponseCallers, rk \in ResponseRowOrders :
        result' = [engine |-> "list", id |-> id, period |-> "", rowOrder |-> rk,
                   user |-> u, out |-> list_form_responses(id, User(u), Db(rk))]
    /\ UNCHANGED <<store, now, reqs, commitLog>>

CallResponseDetails ==
    /\ \E id \in OrgStudents, u \in ResponseCallers, rk \in ResponseRowOrders :
        result' = [engine |-> "details", id |-> id, period |-> "", rowOrder |-> rk,
                   user |-> u, out |-> get_response_details(id, User(u), Db(rk))]
    /\ UNCHANGED <<store, now, reqs, commitLog>>

CallExportCsv ==
    /\ \E id \in CallIds, u \in ResponseCallers, rk \in ResponseRowOrders :
        result' = [engine |-> "csv", id |-> id, period |-> "", rowOrder |-> rk,
                   user |-> u, out |-> export_responses_csv(id, User(u), Db(rk))]
    /\ UNCHANGED <<store, now, reqs, commitLog>>

ResponsesNext == CallListResponses \/ CallResponseDetails \/ CallExportCsv

SpecResponses == ResponsesInit /\ [][ResponsesNext]_vars

\* The rows with the anonymous response x handed in by student s instead.
SubmittedBy(db, x, s) ==
    [db EXCEPT !.responses = (db.responses \ {x}) \cup {[x EXCEPT !.student_id = s]}]

\* The output of the endpoint of the last call on the rows db.
ReadAgain(db) ==
    CASE result.engine = "list" -> list_form_responses(result.id, User(result.user), db)
      [] result.engine = "details" -> get_response_details(result.id, User(result.user), db)
      [] result.engine = "csv" -> export_responses_csv(result.id, User(result.user), db)

\* The response row with the given id.
ResponseRow(id) == CHOOSE x \in responses : x.id = id

AnonymousFieldsHidden ==
    CASE result.engine = "list" ->
            \A i \in 1..Len(result.out.body) :
                ResponseRow(result.out.body[i].id).is_anonymous
                    => /\ result.out.body[i].student_id = {}
                       /\ result.out.body[i].student_email = {}
      [] result.engine = "details" ->
            ResponseRow(result.out.body.id).is_anonymous
                => /\ result.out.body.student_id = {}
                   /\ result.out.body.student_email = {}
      [] result.engine = "csv" ->
            \A i \in 1..Len(result.out.body) :
                ResponseRow(result.out.body[i][1]).is_anonymous
                    => result.out.body[i][2] = "Anonymous"

\* C26: for an anonymous response the list and the details carry no
\* student_id and no student_email and the CSV row carries "Anonymous" in the
\* email column; and what any of the three endpoints returns is the same
\* whichever student of the organization handed the anonymous response in.
C26_AnonymousResponses ==
    result.engine \in {"list", "details", "csv"} =>
        /\ result.out.status = 200 => AnonymousFieldsHidden
        /\ \A x \in {y \in responses : y.is_anonymous} : \A s \in OrgStudents :
              ReadAgain(SubmittedBy(Db(result.rowOrder), x, s)) = result.out

\* A CSV export that went through, with an anonymous and a named response.
C26_Witness ==
    /\ result.engine = "csv"
    /\ result.out.status = 200
    /\ \E x \in responses : x.is_anonymous /\ x.form_id = result.id
    /\ \E x \in responses : ~x.is_anonymous /\ x.form_id = result.id

---------------------------------------------------------------------------
(* submit_feedback_response as a whole, among the question handlers        *)
(* (SpecStore).                                                            *)

\* The rows one accepted submission of request req adds from the tables
\* (rs, as) to (rs2, as2): one response of the caller on the form and one
\* answer per submitted answer, all of that response; nothing else changes.
AddsOneSubmission(req, rs, as, rs2, as2) ==
    /\ rs \subseteq rs2 /\ as \subseteq as2
    /\ \E x \in rs2 \ rs :
        /\ rs2 = rs \cup {x}
        /\ x.form_id = req.form_id /\ x.student_id = req.user
        /\ x.is_anonymous = req.body.is_anonymous
        /\ \A a \in as2 \ as : a.response_id = x.id
        /\ Cardinality(as2 \ as) = Len(req.body.answers)
        /\ \A i \in 1..Len(req.body.answers) : \E a \in as2 \ as :
              /\ a.question_id = req.body.answers[i].question_id
              /\ a.answer_value = req.body.answers[i].answer_value

\* C27: a step of a submit_feedback_response request either ends it with
\* 201 and adds, in that one step (one commit), exactly one Response and one
\* Answer per submitted answer, or leaves the Response and Answer rows as
\* they were: a request turned away (404, 403, 400, or at the commit) and a
\* request still under way have created and changed nothing.
C27_SubmitAllOrNothing ==
    [][\A r \in ReqIds :
        (reqs'[r].op = "submit" /\ reqs'[r] # reqs[r]) =>
            IF reqs'[r].pc = "done" /\ reqs'[r].status = 201
            THEN /\ AddsOneSubmission(reqs'[r], responses, answers, responses', answers')
                 /\ Len(commitLog') = Len(commitLog) + 1
            ELSE /\ responses' = responses /\ answers' = answers
                 /\ commitLog' = commitLog]_vars

\* One submission with two answers went through and one was turned away.
C27_Witness ==
    \E r1, r2 \in ReqIds :
        /\ reqs[r1].op = "submit" /\ reqs[r1].pc = "done" /\ reqs[r1].status = 201
        /\ Len(reqs[r1].body.answers) = 2
        /\ Cardinality({a \in answers : \E x \in responses :
                            x.student_id = reqs[r1].user /\ a.response_id = x.id}) = 2
        /\ reqs[r2].op = "submit" /\ reqs[r2].pc = "done" /\ reqs[r2].status = 400

---------------------------------------------------------------------------
(* The summary engine and the trends engine on the same rows (Spec).       *)

\* The (date, count) pairs of a list of entries or points.
DateCounts(entries) == [i \in 1..Len(entries) |-> <<entries[i].date, entries[i].count>>]

\* C28: on the same rows, the (date, count) pairs of the summary's
\* responses_by_date are the (date, count) pairs of the response_trend of
\* daily trends, in the same order, and the count of each bucket of weekly
\* trends is the sum of the daily counts of the dates of the Monday-to-Sunday
\* week of the bucket's key (whatever order the rows come back in).
C28_SummaryAgreesWithTrends ==
    (result.engine = "summary" /\ result.out.status = "ok")
    => \A rk \in RowOrders :
        LET hist   == result.out.responses_by_date
            daily  == calculate_trends(result.id, "daily", Db(rk))
            weekly == calculate_trends(result.id, "weekly", Db(rk))
        IN /\ daily.status = "ok" => DateCounts(daily.response_trend) = DateCounts(hist)
           /\ weekly.status = "ok" =>
                \A i \in 1..Len(weekly.response_trend) :
                    LET k == weekly.response_trend[i].date
                        days == SelectSeq(hist, LAMBDA e : SameWeek(e.date, k))
                    IN weekly.response_trend[i].count
                            = SumSeq([j \in 1..Len(days) |-> days[j].count])

\* A summary of responses of two days of one week and of a day of the next,
\* on rows both trends also report on.
C28_Witness ==
    /\ result.engine = "summary" /\ result.out.status = "ok"
    /\ Len(result.out.responses_by_date) = 3
    /\ calculate_trends(result.id, "daily", Db(result.rowOrder)).status = "ok"
    /\ LET weekly == calculate_trends(result.id, "weekly", Db(result.rowOrder))
       IN weekly.status = "ok" /\ Len(weekly.response_trend) = 2

---------------------------------------------------------------------------
(* SpecRequired: the summary of a form whose responses all came through    *)
(* submit_feedback_response, among add, update and delete question         *)
(* requests of which none makes a question of the form required once a     *)
(* submission to the form has checked the required questions (step 7).     *)

\* A submission to the form has passed step 7, and is at its commit or has
\* committed.
SubmissionValidated(form_id) ==
    \E r \in ReqIds :
        /\ reqs[r].op = "submit" /\ reqs[r].form_id = form_id
        /\ \/ reqs[r].pc = "commit"
           \/ reqs[r].pc = "done" /\ reqs[r].status = 201

\* The commit of request r adds a required question to a form or makes a
\* question of a form required.
MakesRequired(r, form_id) ==
    \/ /\ reqs[r].op = "add" /\ reqs[r].form_id = form_id
       /\ reqs[r].body.is_required
    \/ /\ reqs[r].op = "update" /\ reqs[r].body.is_required = {TRUE}
       /\ \E q \in questions :
            q.id = reqs[r].question_id /\ q.form_id = form_id /\ ~q.is_required

\* The commit of request r comes before the submissions to every form it
\* makes a question of required.
BeforeSubmissions(r) ==
    \A f \in forms : MakesRequired(r, f.id) => ~SubmissionValidated(f.id)

\* The question requests tried here are the owner's: those of other users
\* end with 403 in their first step.
ByOwner(r) == reqs'[r].user = 1

\* The updates tried here set is_required.
OfRequired(r) == reqs'[r].body.is_required # {}

\* The submissions tried here are to form 1, the form that is then summed
\* up, by students of its organization: those of others end with 403 in
\* their first step.
ByMember(r) == User(reqs'[r].user).org_id = 1

RequiredNext ==
    \/ \E r \in ReqIds :
        \/ SubmitFindForm(r) /\ ByMember(r) /\ reqs'[r].form_id = 1
        \/ SubmitCheckExisting(r)
        \/ SubmitValidate(r) \/ SubmitCommit(r)
        \/ AddCountQuestions(r) /\ ByOwner(r)
        \/ AddCommit(r) /\ BeforeSubmissions(r)
        \/ UpdateFindQuestion(r) /\ ByOwner(r) /\ OfRequired(r)
        \/ UpdateQuestionCommit(r) /\ BeforeSubmissions(r)
        \/ DeleteFindQuestion(r) /\ ByOwner(r)
        \/ DeleteQuestionCommit(r)
        \/ DeleteLoadRemaining(r) \/ DeleteRenumber(r)
    \/ CallSummaryOfForm /\ result'.id = 1

SpecRequired == StoreInit /\ [][RequiredNext]_vars

---------------------------------------------------------------------------
(* The callers of the analytics endpoints (SpecAnalytics).                 *)

\* C30: an analytics request (summary, question, trends, sentiment, export)
\* on a form by a caller of another organization than the form's, whatever
\* the caller's role, ends with 403 in the route's own checks: it never
\* reaches an engine and never returns data.
C30_TenantIsolation ==
    \A r \in ReqIds :
        (/\ reqs[r].op \in AnalyticsOps
         /\ HasForm(forms, reqs[r].form_id)
         /\ User(reqs[r].user).org_id # FormRow(forms, reqs[r].form_id).org_id)
        => reqs[r].pc = "done" /\ reqs[r].status = 403
=============================================================================
